---- MODULE Spec2Model ----
(***************************************************************************)
(* Bupget bank-sync engine: the retry executor (app/utils/retry.py), the   *)
(* Up Bank HTTP client (app/api/up_bank.py), the reconciliation of remote  *)
(* transactions through sync and webhooks (app/api/up_bank.py,             *)
(* app/api/webhooks.py), the transaction service                           *)
(* (app/services/transaction_service.py) and the weekly summary            *)
(* (app/models/transaction.py).                                            *)
(***************************************************************************)
EXTENDS Integers, Sequences, FiniteSets, TLC

VARIABLES
    \* ---- retry executor (retry.wrapper) and the operation it wraps
    rcfg,       \* [tries, exceptions, delay, backoff, jitter, func] of the decorator
    script,     \* what the wrapped operation / the upstream will do, call by call
    mtries,     \* wrapper local: attempts left
    mdelay,     \* wrapper local: current un-jittered delay (ms)
    rpc,        \* "idle" | "loop" | "sleeping" | "returned" | "raised"
    calls,      \* number of calls of the wrapped operation so far
    sleeps,     \* sequence of the delays passed to time.sleep (ms)
    result,     \* value returned, or kind of the exception propagated
    requests,   \* number of HTTP requests issued (requests.request calls)
    seen,       \* outcomes of the calls made so far, in order
    \* ---- the datastore and the operations on it
    db,         \* committed rows: txs, accounts, summaries, categories, id counters
    today,      \* datetime.now().date(), a day number
    ops,        \* number of operations performed
    hist,       \* the last operations: what was asked, what came back, db before and after
    scn,        \* which inputs the environment offers
    \* ---- concurrent reconciliations of one external id
    procs       \* per request: its step, its session (snapshot, pending row), its outcome

retryVars == <<rcfg, script, mtries, mdelay, rpc, calls, sleeps, result, requests, seen>>
dbVars == <<db, today, ops, hist, scn>>

vars == <<retryVars, dbVars, procs>>

\* Values of the variables a specification does not use.
RetryIdle ==
    /\ rcfg = <<>> /\ script = <<>> /\ mtries = 0 /\ mdelay = 0 /\ rpc = "idle"
    /\ calls = 0 /\ sleeps = <<>> /\ result = <<>> /\ requests = 0 /\ seen = <<>>
DbIdle ==
    /\ db = <<>> /\ today = 0 /\ ops = 0 /\ hist = <<>> /\ scn = "none"
ProcsIdle == procs = <<>>

----------------------------------------------------------------------------
(* Exception classes and Python's except-clause matching.                  *)

NoParent == "object"

\* The exception classes of app/api/up_bank.py, and the library classes the
\* code catches; Parent is the direct base class.
Parent(k) ==
    CASE k = "UpBankError"           -> "Exception"
      [] k = "UpBankAuthError"       -> "UpBankError"
      [] k = "UpBankAPIError"        -> "UpBankError"
      [] k = "UpBankRateLimitError"  -> "UpBankAPIError"
      [] k = "UpBankConnectionError" -> "UpBankError"
      [] k = "ConnectionError"       -> "Exception"   \* requests.exceptions
      [] k = "Timeout"               -> "Exception"   \* requests.exceptions
      [] k = "JSONDecodeError"       -> "Exception"
      [] k = "TypeError"             -> "Exception"
      [] k = "IntegrityError"        -> "Exception"
      [] k = "AttributeError"        -> "Exception"
      [] k = "LookupError"           -> "Exception"
      [] OTHER                       -> NoParent

RECURSIVE IsSubclass(_, _)
IsSubclass(k, c) ==
    IF k = c THEN TRUE
    ELSE IF Parent(k) = NoParent THEN FALSE
    ELSE IsSubclass(Parent(k), c)

\* `except tuple(exceptions_to_catch)`: isinstance against any listed class.
CaughtCatchAll(k, excs) == TRUE
Caught(k, excs) == \E c \in excs : IsSubclass(k, c)

\* The exception lists the repository configures.
PingExceptions ==
    {"ConnectionError", "Timeout", "UpBankConnectionError", "UpBankRateLimitError", "UpBankError"}
ApiExceptions ==
    {"ConnectionError", "Timeout", "UpBankConnectionError", "UpBankRateLimitError"}
WebhookExceptions == {"Exception"}
TestExceptions == {"ConnectionError"}

----------------------------------------------------------------------------
(* retry.wrapper                                                           *)

MaxTries == 4            \* largest configured tries explored
JitterPm == 100          \* jitter=0.1, in thousandths
BaseDelayMs == 1000      \* delay=1 second, in ms
Backoff == 2

\* `while mtries > 1`
LoopGuardOffByOne(m) == m > 2
LoopGuard(m) == m > 1

\* effective_delay = mdelay * (1 + jitter_amount), jitter_amount in [-jitter, jitter];
\* the draw is represented by its two ends and its middle.
JitterDraws(j) == {0 - j, 0, j}
EffectiveDelay(d, j) == (d * (1000 + j)) \div 1000

\* Python values: a returned value, or a raised exception with the attributes
\* the code reads (status_code, retry_after); an absent attribute or None is {}.
Ret(v) == [kind |-> "return", value |-> v, status_code |-> {}, retry_after |-> {}]
Exc(k, sc, ra) == [kind |-> k, value |-> "None", status_code |-> sc, retry_after |-> ra]
NoResult == [kind |-> "none", value |-> "None", status_code |-> {}, retry_after |-> {}]

Ok == "ok"
Outcomes == {Ok, "ConnectionError", "UpBankRateLimitError", "UpBankAuthError", "TypeError"}

\* One call of the wrapped operation by the wrapper (line 63 inside the loop,
\* line 84 for the last attempt) with outcome o.
WrapperCall(o) ==
    /\ calls' = calls + 1
    /\ IF o.kind = "return"
       THEN /\ rpc' = "returned"
            /\ result' = o
       ELSE IF LoopGuard(mtries) /\ Caught(o.kind, rcfg.exceptions)
       THEN /\ rpc' = "sleeping"
            /\ result' = result
       ELSE /\ rpc' = "raised"
            /\ result' = o
    /\ UNCHANGED <<rcfg, mtries, mdelay, sleeps>>

\* What a scripted operation does on a call whose script entry is s.
Scripted(s) == IF s = Ok THEN Ret(Ok) ELSE Exc(s, {}, {})

\* A scripted operation (the test functions of tests/test_upbank_retry.py):
\* the k-th call does script[k].
RetryAttempt ==
    /\ rpc = "loop"
    /\ rcfg.func = "scripted"
    /\ calls < Len(script)
    /\ WrapperCall(Scripted(script[calls + 1]))
    /\ seen' = Append(seen, script[calls + 1])
    /\ UNCHANGED <<script, requests, dbVars, procs>>

\* `mdelay *= backoff`
NextDelayKeeps(d, backoff) == d
NextDelay(d, backoff) == d * backoff

\* The except branch: sleep, then mtries -= 1 and mdelay *= backoff.
RetrySleep ==
    /\ rpc = "sleeping"
    /\ \E j \in JitterDraws(rcfg.jitter) :
          sleeps' = Append(sleeps, EffectiveDelay(mdelay, j))
    /\ mtries' = mtries - 1
    /\ mdelay' = NextDelay(mdelay, rcfg.backoff)
    /\ rpc' = "loop"
    /\ UNCHANGED <<rcfg, script, calls, result, requests, seen, dbVars, procs>>

ExceptionLists == {PingExceptions, ApiExceptions, WebhookExceptions, TestExceptions}

InitRetry ==
    /\ rcfg \in [tries : 1..MaxTries, exceptions : ExceptionLists,
                 delay : {BaseDelayMs}, backoff : {Backoff}, jitter : {JitterPm},
                 func : {"scripted"}]
    /\ script \in [1..MaxTries -> Outcomes]
    /\ mtries = rcfg.tries
    /\ mdelay = rcfg.delay
    /\ rpc = "loop"
    /\ calls = 0
    /\ sleeps = <<>>
    /\ result = NoResult
    /\ requests = 0
    /\ seen = <<>>
    /\ DbIdle
    /\ ProcsIdle

NextRetry == RetryAttempt \/ RetrySleep

SpecRetry == InitRetry /\ [][NextRetry]_vars

Finished == rpc \in {"returned", "raised"}

\* The retryable error kinds of a configuration: the listed classes and
\* their subclasses.
Retryable(k, excs) == \E c \in excs : IsSubclass(k, c)

\* The operation raises an error the configuration retries on calls 1..n-1
\* and succeeds on call n.
FailsThenSucceeds(n) ==
    /\ n <= Len(script)
    /\ \A i \in 1..(n - 1) : script[i] # Ok /\ Retryable(script[i], rcfg.exceptions)
    /\ script[n] = Ok

\* The operation raises an error the configuration retries on calls 1..n.
AlwaysFailsRetryable(n) ==
    /\ n <= Len(script)
    /\ \A i \in 1..n : script[i] # Ok /\ Retryable(script[i], rcfg.exceptions)

\* C6: with tries = N, an operation that raises a retryable error on its
\* first N-1 calls and succeeds on the N-th makes the executor return that
\* success after exactly N calls and exactly N-1 sleeps (and it never raises).
C6_FailsThenSucceeds ==
    FailsThenSucceeds(rcfg.tries) =>
        /\ rpc # "raised"
        /\ Finished => /\ rpc = "returned"
                       /\ result = Ret(Ok)
                       /\ calls = rcfg.tries
                       /\ Len(sleeps) = rcfg.tries - 1

C6_Witness ==
    /\ FailsThenSucceeds(rcfg.tries)
    /\ rcfg.tries >= 3
    /\ rpc = "returned"
    /\ calls = rcfg.tries

\* C7: with tries = N, an operation that always raises a retryable error is
\* called exactly N times with exactly N-1 sleeps, then the error of the N-th
\* call propagates; the number of calls never exceeds N.
C7_ExhaustsAfterN ==
    /\ calls <= rcfg.tries
    /\ AlwaysFailsRetryable(rcfg.tries) =>
          /\ rpc # "returned"
          /\ Finished => /\ rpc = "raised"
                         /\ calls = rcfg.tries
                         /\ Len(sleeps) = rcfg.tries - 1
                         /\ result.kind = script[rcfg.tries]

C7_Witness ==
    /\ AlwaysFailsRetryable(rcfg.tries)
    /\ rcfg.tries >= 3
    /\ rpc = "raised"
    /\ script[1] # script[rcfg.tries]

\* C8: an error that no class of the configured retryable list catches
\* propagates after exactly 1 call and 0 sleeps, whatever tries is.
C8_NonRetryablePropagates ==
    (script[1] # Ok /\ ~Retryable(script[1], rcfg.exceptions)) =>
        /\ calls <= 1
        /\ sleeps = <<>>
        /\ calls = 1 => (rpc = "raised" /\ result.kind = script[1])

C8_Witness ==
    /\ script[1] = "UpBankAuthError"
    /\ ~Retryable(script[1], rcfg.exceptions)
    /\ rcfg.tries >= 3
    /\ rpc = "raised"
    /\ calls = 1

----------------------------------------------------------------------------
(* UpBankAPI._make_request, _handle_error_response and ping                *)

MAX_RETRIES == 3
PingDelayMs == 2000      \* delay=2 seconds, in ms

\* What the upstream does to one HTTP request: a transport failure raised by
\* requests.request, or a response with a status, a Retry-After header and
\* a body that parses as JSON or does not.
Resp(st, ra, js) == [transport |-> "ok", status |-> st, retry_after_header |-> ra, json |-> js]
Fail(k) == [transport |-> k, status |-> 0, retry_after_header |-> "absent", json |-> FALSE]

Responses ==
    {Resp(200, "absent", TRUE), Resp(200, "absent", FALSE),
     Resp(401, "absent", TRUE), Resp(403, "absent", FALSE),
     Resp(404, "absent", TRUE),
     Resp(429, "absent", TRUE), Resp(429, "60", TRUE), Resp(429, "soon", TRUE),
     Resp(500, "absent", FALSE), Resp(503, "absent", TRUE),
     Fail("ConnectionError"), Fail("Timeout")}

\* int(response.headers['Retry-After']) guarded by `'Retry-After' in headers`
\* and `except (ValueError, TypeError): pass`; {} is None.
ParseRetryAfter(h) ==
    CASE h = "60" -> {60}
      [] h = "1"  -> {1}
      [] OTHER    -> {}

\* _handle_error_response: the exception raised for a response of status >= 400.
HandleErrorResponse(r) ==
    CASE r.status = 401 -> Exc("UpBankAuthError", {}, {})
      [] r.status = 403 -> Exc("UpBankAuthError", {}, {})
      [] r.status = 404 -> Exc("UpBankAPIError", {404}, {})
      [] r.status = 429 -> Exc("UpBankRateLimitError", {429}, ParseRetryAfter(r.retry_after_header))
      [] OTHER          -> Exc("UpBankAPIError", {r.status}, {})

\* What the try block of _make_request does: requests.request raises on a
\* transport failure, _handle_error_response raises on status >= 400, and
\* response.json() raises on a body that is not JSON.
TryBody(r) ==
    IF r.transport # "ok" THEN Exc(r.transport, {}, {})
    ELSE IF r.status >= 400 THEN HandleErrorResponse(r)
    ELSE IF ~r.json THEN Exc("JSONDecodeError", {}, {})
    ELSE Ret("json")

\* The except clauses of _make_request, in order, applied to what the try
\* block raised: JSONDecodeError, Timeout, ConnectionError, then Exception.
ExceptClauses(e) ==
    IF IsSubclass(e.kind, "JSONDecodeError") THEN Exc("UpBankAPIError", {}, {})
    ELSE IF IsSubclass(e.kind, "Timeout") THEN Exc("UpBankConnectionError", {}, {})
    ELSE IF IsSubclass(e.kind, "ConnectionError") THEN Exc("UpBankConnectionError", {}, {})
    ELSE IF IsSubclass(e.kind, "Exception") THEN Exc("UpBankError", {}, {})
    ELSE e

\* _make_request: what its caller gets for upstream behaviour r.
MakeRequest(r) ==
    LET t == TryBody(r) IN
    IF t.kind = "return" THEN t ELSE ExceptClauses(t)

\* The body of ping: True on success, False on UpBankAuthError, any other
\* exception re-raised to the retry decorator.
PingBody(r) ==
    LET o == MakeRequest(r) IN
    IF o.kind = "return" THEN Ret("True")
    ELSE IF IsSubclass(o.kind, "UpBankAuthError") THEN Ret("False")
    ELSE o

\* One attempt of the decorated ping: one HTTP request.
PingAttempt ==
    /\ rpc = "loop"
    /\ rcfg.func = "ping"
    /\ calls < Len(script)
    /\ requests' = requests + 1
    /\ seen' = Append(seen, script[calls + 1])
    /\ WrapperCall(PingBody(script[calls + 1]))
    /\ UNCHANGED <<script, dbVars, procs>>

\* A direct call of _make_request (it carries no decorator).
DirectRequest ==
    /\ rpc = "loop"
    /\ rcfg.func = "_make_request"
    /\ calls = 0
    /\ calls' = calls + 1
    /\ requests' = requests + 1
    /\ seen' = Append(seen, script[1])
    /\ LET o == MakeRequest(script[1]) IN
         /\ result' = o
         /\ rpc' = IF o.kind = "return" THEN "returned" ELSE "raised"
    /\ UNCHANGED <<rcfg, script, mtries, mdelay, sleeps, dbVars, procs>>

InitHttp ==
    /\ rcfg \in [tries : {MAX_RETRIES}, exceptions : {PingExceptions},
                 delay : {PingDelayMs}, backoff : {Backoff}, jitter : {JitterPm},
                 func : {"ping", "_make_request"}]
    /\ script \in [1..MAX_RETRIES -> Responses]
    /\ (rcfg.func = "_make_request" => \A i \in 2..MAX_RETRIES : script[i] = script[1])
    /\ mtries = rcfg.tries
    /\ mdelay = rcfg.delay
    /\ rpc = "loop"
    /\ calls = 0
    /\ sleeps = <<>>
    /\ result = NoResult
    /\ requests = 0
    /\ seen = <<>>
    /\ DbIdle
    /\ ProcsIdle

NextHttp == PingAttempt \/ RetrySleep \/ DirectRequest

SpecHttp == InitHttp /\ [][NextHttp]_vars

\* C9: the caller of _make_request observes the typed error the response
\* determines: 401/403 the auth kind, 429 the rate-limit kind with the parsed
\* retry_after, 404 and 5xx the API kind with the status code, a connection
\* failure or timeout the connection kind; that is, what the classifier
\* raised is what the caller sees.
C9_TypedErrorObserved ==
    (rcfg.func = "_make_request" /\ Finished) =>
        LET r == seen[1] IN
        /\ (r.transport = "ok" /\ r.status \in {401, 403}) =>
              (rpc = "raised" /\ result.kind = "UpBankAuthError")
        /\ (r.transport = "ok" /\ r.status = 429) =>
              (rpc = "raised" /\ result.kind = "UpBankRateLimitError"
                 /\ result.retry_after = ParseRetryAfter(r.retry_after_header))
        /\ (r.transport = "ok" /\ (r.status = 404 \/ r.status >= 500)) =>
              (rpc = "raised" /\ result.kind = "UpBankAPIError"
                 /\ result.status_code = {r.status})
        /\ (r.transport # "ok") =>
              (rpc = "raised" /\ result.kind = "UpBankConnectionError")
        /\ (r.transport = "ok" /\ r.status >= 400) => result = HandleErrorResponse(r)

\* C10: when the upstream answers 401 or 403, ping issues exactly one HTTP
\* request, sleeps never, and returns False.
C10_PingAuthNotRetried ==
    (rcfg.func = "ping" /\ script[1].transport = "ok" /\ script[1].status \in {401, 403}) =>
        /\ requests <= 1
        /\ sleeps = <<>>
        /\ rpc # "sleeping"
        /\ Finished => (rpc = "returned" /\ result = Ret("False"))

----------------------------------------------------------------------------
(* Values: dates, decimals, floats, strings                                *)

\* Dates are day numbers, day 0 a Monday. Transaction.week_start_date:
\* date - timedelta(days=date.weekday()).
Weekday(d) == d % 7
WeekStart(d) == d - Weekday(d)

\* Numeric(10, 2) columns hold decimals: an exact number of cents. Python's
\* float is a binary floating-point number m * 2^e with a significand of
\* MantissaBits bits (53 in CPython, narrowed here), rounded to nearest, ties
\* to even, after every operation.
MantissaBits == 9

FloatZero == [m |-> 0, e |-> 0]

\* n / d (n >= 0, d > 0) rounded to the nearest integer, ties to even.
RoundHalfEven(n, d) ==
    LET q == n \div d
        r == n % d
    IN IF 2 * r > d \/ (2 * r = d /\ q % 2 = 1) THEN q + 1 ELSE q

\* The float nearest to the exact value (num / den) * 2^e, num > 0.
RECURSIVE FloatNearest(_, _, _)
FloatNearest(num, den, e) ==
    IF num >= den * 2^MantissaBits THEN FloatNearest(num, den * 2, e + 1)
    ELSE IF num < den * 2^(MantissaBits - 1) THEN FloatNearest(num * 2, den, e - 1)
    ELSE LET m == RoundHalfEven(num, den) IN
         IF m = 2^MantissaBits THEN [m |-> 2^(MantissaBits - 1), e |-> e + 1]
         ELSE [m |-> m, e |-> e]

FloatRound(n, den, e) ==
    IF n = 0 THEN FloatZero
    ELSE IF n > 0 THEN FloatNearest(n, den, e)
    ELSE LET f == FloatNearest(0 - n, den, e) IN [m |-> 0 - f.m, e |-> f.e]

\* float(t.amount): the float nearest to cents / 100.
FloatOfDecimal(cents) == FloatRound(cents, 100, 0)

\* x + y on floats: the exact sum, rounded.
FloatAdd(x, y) ==
    IF x.m = 0 THEN y
    ELSE IF y.m = 0 THEN x
    ELSE LET e == IF x.e < y.e THEN x.e ELSE y.e IN
         FloatRound(x.m * 2^(x.e - e) + y.m * 2^(y.e - e), 1, e)

\* str.lower(), character by character; a string is the sequence of its
\* characters.
LowerChar(c) ==
    CASE c = "A" -> "a"
      [] c = "B" -> "b"
      [] c = "C" -> "c"
      [] c = "D" -> "d"
      [] c = "E" -> "e"
      [] c = "F" -> "f"
      [] c = "G" -> "g"
      [] c = "H" -> "h"
      [] c = "I" -> "i"
      [] c = "J" -> "j"
      [] c = "K" -> "k"
      [] c = "L" -> "l"
      [] c = "M" -> "m"
      [] c = "N" -> "n"
      [] c = "O" -> "o"
      [] c = "P" -> "p"
      [] c = "Q" -> "q"
      [] c = "R" -> "r"
      [] c = "S" -> "s"
      [] c = "T" -> "t"
      [] c = "U" -> "u"
      [] c = "V" -> "v"
      [] c = "W" -> "w"
      [] c = "X" -> "x"
      [] c = "Y" -> "y"
      [] c = "Z" -> "z"
      [] OTHER -> c

\* category_patterns of suggest_category_for_transaction, in dict order;
\* a string is the sequence of its characters.

CategoryPatterns ==
    <<[name |-> "groceries", patterns |->
         {<<"w","o","o","l","w","o","r","t","h","s">>,
          <<"c","o","l","e","s">>,
          <<"a","l","d","i">>,
          <<"i","g","a">>,
          <<"f","o","o","d","l","a","n","d">>,
          <<"g","r","o","c","e","r","y">>,
          <<"s","u","p","e","r","m","a","r","k","e","t">>,
          <<"f","r","u","i","t">>,
          <<"v","e","g","e","t","a","b","l","e">>}],
      [name |-> "dining out", patterns |->
         {<<"c","a","f","e">>,
          <<"r","e","s","t","a","u","r","a","n","t">>,
          <<"u","b","e","r"," ","e","a","t","s">>,
          <<"m","e","n","u","l","o","g">>,
          <<"d","o","o","r","d","a","s","h">>,
          <<"c","o","f","f","e","e">>,
          <<"m","c","d","o","n","a","l","d">>,
          <<"h","u","n","g","r","y"," ","j","a","c","k">>,
          <<"k","f","c">>}],
      [name |-> "transport", patterns |->
         {<<"u","b","e","r">>,
          <<"l","y","f","t">>,
          <<"t","a","x","i">>,
          <<"t","r","a","i","n">>,
          <<"b","u","s">>,
          <<"t","r","a","n","s","p","o","r","t">>,
          <<"f","u","e","l">>,
          <<"p","e","t","r","o","l">>,
          <<"g","a","s","o","l","i","n","e">>,
          <<"p","a","r","k","i","n","g">>,
          <<"t","o","l","l">>}],
      [name |-> "utilities", patterns |->
         {<<"w","a","t","e","r">>,
          <<"e","l","e","c","t","r","i","c","i","t","y">>,
          <<"g","a","s">>,
          <<"p","o","w","e","r">>,
          <<"e","n","e","r","g","y">>,
          <<"i","n","t","e","r","n","e","t">>,
          <<"p","h","o","n","e">>,
          <<"m","o","b","i","l","e">>,
          <<"u","t","i","l","i","t","y">>}],
      [name |-> "entertainment", patterns |->
         {<<"m","o","v","i","e">>,
          <<"c","i","n","e","m","a">>,
          <<"n","e","t","f","l","i","x">>,
          <<"s","p","o","t","i","f","y">>,
          <<"d","i","s","n","e","y">>,
          <<"a","m","a","z","o","n"," ","p","r","i","m","e">>,
          <<"e","n","t","e","r","t","a","i","n","m","e","n","t">>,
          <<"g","a","m","e">>,
          <<"p","l","a","y","s","t","a","t","i","o","n">>,
          <<"x","b","o","x">>,
          <<"n","i","n","t","e","n","d","o">>}],
      [name |-> "health", patterns |->
         {<<"p","h","a","r","m","a","c","y">>,
          <<"d","o","c","t","o","r">>,
          <<"h","o","s","p","i","t","a","l">>,
          <<"m","e","d","i","c","a","l">>,
          <<"d","e","n","t","a","l">>,
          <<"g","y","m">>,
          <<"f","i","t","n","e","s","s">>,
          <<"h","e","a","l","t","h">>}],
      [name |-> "shopping", patterns |->
         {<<"a","m","a","z","o","n">>,
          <<"e","b","a","y">>,
          <<"k","m","a","r","t">>,
          <<"t","a","r","g","e","t">>,
          <<"b","i","g"," ","w">>,
          <<"b","u","n","n","i","n","g","s">>,
          <<"s","h","o","p","p","i","n","g">>,
          <<"r","e","t","a","i","l">>,
          <<"c","l","o","t","h","i","n","g">>,
          <<"a","p","p","a","r","e","l">>}]>>

Lower(s) == [i \in 1..Len(s) |-> LowerChar(s[i])]

\* re.search(pattern, s) for a literal pattern, and SQL LIKE '%pattern%':
\* pattern occurs in s.
Occurs(pattern, s) ==
    \E i \in 1..(Len(s) - Len(pattern) + 1) :
        SubSeq(s, i, i + Len(pattern) - 1) = pattern

\* The elements of a finite set of rows, by ascending id.
RECURSIVE ById(_)
ById(S) ==
    IF S = {} THEN <<>>
    ELSE LET r == CHOOSE x \in S : \A y \in S : x.id <= y.id
         IN <<r>> \o ById(S \ {r})

RECURSIVE SumAmounts(_)
SumAmounts(rows) ==
    IF rows = <<>> THEN 0 ELSE Head(rows).amount + SumAmounts(Tail(rows))

----------------------------------------------------------------------------
(* The datastore                                                           *)

\* None for an integer column or variable (`if not x` holds of None and 0).
NoId == 0

\* TransactionSource
SourceManual == "manual"
SourceUpBank == "up_bank"

\* The one user of the model and their linked account.
AccountExternalId == "A1"
AccountId == 1

EmptyDb(balance) ==
    [txs        |-> {},
     accounts   |-> {[id |-> AccountId, external_id |-> AccountExternalId, balance |-> balance]},
     summaries  |-> {},
     categories |-> {},
     nextTx     |-> 1,
     nextCat    |-> 1]

\* Account.query.filter_by(external_id=..., user_id=...).first(), as an id.
AccountByExternalId(d, ext) ==
    IF \E a \in d.accounts : a.external_id = ext
    THEN (CHOOSE a \in d.accounts : a.external_id = ext).id
    ELSE NoId

\* account_map of sync_transactions: external id -> id, .get(ext) -> None.
AccountMapGet(d, ext) == AccountByExternalId(d, ext)

\* Transaction.query.filter_by(external_id=..., user_id=...): the rows.
TxByExternalId(d, ext) == {t \in d.txs : t.external_id = ext}

\* .first() of a query: with a unique external id there is at most one row;
\* the lowest id otherwise.
First(S) == CHOOSE x \in S : \A y \in S : x.id <= y.id

ReplaceTx(d, old, new) == [d EXCEPT !.txs = (@ \ {old}) \cup {new}]

\* WeeklySummary.calculate_for_week(user_id, start_date): the week's rows are
\* read (the query has no ORDER BY: the rows come in storage order, the order
\* of their insertion and of their ids), the totals computed, and the summary row of
\* (user, week) written and committed.
WeekRows(d, start) == ById({t \in d.txs : t.date >= start /\ t.date <= start + 6})

IsExpense(t) == t.amount < 0
IsIncome(t) == t.amount > 0
IsExtra(t) == t.is_extra

\* category_totals: category_id -> float, accumulated row by row.
RECURSIVE CategoryTotals(_, _)
CategoryTotals(rows, acc) ==
    IF rows = <<>> THEN acc
    ELSE LET t == Head(rows) IN
         IF t.category_id = NoId THEN CategoryTotals(Tail(rows), acc)
         ELSE LET cur == IF t.category_id \in DOMAIN acc THEN acc[t.category_id] ELSE FloatZero
                  new == FloatAdd(cur, FloatOfDecimal(t.amount))
              IN CategoryTotals(Tail(rows),
                    [c \in (DOMAIN acc) \cup {t.category_id} |->
                        IF c = t.category_id THEN new ELSE acc[c]])

EmptyTotals == [c \in {} |-> FloatZero]

Summarize(rows, start) ==
    [week_start_date |-> start,
     total_amount    |-> SumAmounts(rows),
     total_expenses  |-> SumAmounts(SelectSeq(rows, IsExpense)),
     total_income    |-> SumAmounts(SelectSeq(rows, IsIncome)),
     total_extras    |-> SumAmounts(SelectSeq(rows, IsExtra)),
     category_totals |-> CategoryTotals(rows, EmptyTotals)]

CalculateForWeek(d, start) ==
    [d EXCEPT !.summaries =
        {s \in @ : s.week_start_date # start} \cup {Summarize(WeekRows(d, start), start)}]


----------------------------------------------------------------------------
(* Categorization: suggest_category_for_transaction                        *)

\* The first category of the table one of whose patterns occurs in desc.
RECURSIVE FirstPatternMatch(_, _)
FirstPatternMatch(table, desc) ==
    IF table = <<>> THEN ""
    ELSE IF \E pat \in Head(table).patterns : Occurs(pat, desc) THEN Head(table).name
    ELSE FirstPatternMatch(Tail(table), desc)

\* The categorized rows whose description ILIKE '%description%', and the most
\* recently created of them (created_at grows with the id).
SimilarRows(d, desc) ==
    {t \in d.txs : t.category_id # NoId /\ Occurs(desc, Lower(t.description))}
MostRecent(S) == CHOOSE x \in S : \A y \in S : x.id >= y.id

\* Returns the suggested category id (NoId for None) and the datastore, in
\* which a keyword category met for the first time has been created and
\* committed.
SuggestCategory(d, description) ==
    LET desc == Lower(description)
        similar == SimilarRows(d, desc)
        name == FirstPatternMatch(CategoryPatterns, desc)
    IN IF similar # {} THEN [db |-> d, category_id |-> MostRecent(similar).category_id]
       ELSE IF name = "" THEN [db |-> d, category_id |-> NoId]
       ELSE IF \E c \in d.categories : c.name = name
       THEN [db |-> d, category_id |-> (CHOOSE c \in d.categories : c.name = name).id]
       ELSE [db |-> [d EXCEPT !.categories = @ \cup {[id |-> d.nextCat, name |-> name]},
                              !.nextCat = @ + 1],
             category_id |-> d.nextCat]

----------------------------------------------------------------------------
(* Mapping a remote transaction record                                     *)

\* A remote record: id ("" when missing), attributes description, rawText,
\* createdAt, amount.value, and relationships.account.data.id. An optional
\* attribute is the set of its values: {} when missing.
UnknownTransaction == <<"U","n","k","n","o","w","n"," ","t","r","a","n","s","a","c","t","i","o","n">>

\* description, replaced by rawText when that is present and not empty.
MapDescription(p) ==
    IF p.rawText # {} THEN CHOOSE x \in p.rawText : TRUE
    ELSE IF p.description = {} THEN UnknownTransaction
    ELSE CHOOSE x \in p.description : TRUE

\* datetime.fromisoformat(createdAt...).date(), datetime.now().date() when
\* that fails to parse.
MapDate(p, now) == IF p.createdAt.state = "ok" THEN p.createdAt.day ELSE now

\* float(value), 0.0 when missing or unparsable; in cents.
MapAmount(p) == IF p.value = {} THEN 0 ELSE CHOOSE x \in p.value : TRUE

MapAccountExternalId(p) == IF p.account = {} THEN "" ELSE CHOOSE x \in p.account : TRUE

\* The merge of the update branch (both paths): description, amount, date
\* and account_id are overwritten.
MergeAddsAmount(t, p, now, account_id) ==
    [t EXCEPT !.description = MapDescription(p), !.amount = @ + MapAmount(p),
              !.date = MapDate(p, now), !.account_id = account_id]
Merge(t, p, now, account_id) ==
    [t EXCEPT !.description = MapDescription(p), !.amount = MapAmount(p),
              !.date = MapDate(p, now), !.account_id = account_id]

\* `if not existing_tx.category_id:` suggest, and assign a suggestion that
\* is not None. Returns the datastore with the row t replaced, the row, and
\* whether suggest_category_for_transaction was called.
CategorizeAlways(d, t) ==
    LET s == SuggestCategory(d, t.description)
        r == [t EXCEPT !.category_id = s.category_id]
    IN [db |-> ReplaceTx(s.db, t, r), row |-> r, consulted |-> TRUE]
CategorizeIfEmpty(d, t) ==
    IF t.category_id # NoId THEN [db |-> d, row |-> t, consulted |-> FALSE]
    ELSE LET s == SuggestCategory(d, t.description)
             r == IF s.category_id = NoId THEN t ELSE [t EXCEPT !.category_id = s.category_id]
         IN [db |-> ReplaceTx(s.db, t, r), row |-> r, consulted |-> TRUE]

NewTx(d, p, now, account_id, category_id) ==
    [id |-> d.nextTx, external_id |-> p.id, date |-> MapDate(p, now),
     description |-> MapDescription(p), amount |-> MapAmount(p),
     is_extra |-> FALSE, source |-> SourceUpBank,
     category_id |-> category_id, account_id |-> account_id]

Insert(d, row) == [d EXCEPT !.txs = @ \cup {row}, !.nextTx = @ + 1]

\* account.balance += amount where account.balance, loaded from a Numeric
\* column, is a decimal.Decimal and amount is a float (float(value) of the
\* payload, float(amount) of the form): Decimal + float raises TypeError.
DecimalPlusFloat(balance, amount) == [raises |-> TRUE, value |-> balance]

\* account.balance -= transaction.amount, both decimals loaded from the
\* datastore.
DecimalMinusDecimal(balance, amount) == balance - amount

SetBalance(d, account_id, balance) ==
    [d EXCEPT !.accounts = {IF a.id = account_id THEN [a EXCEPT !.balance = balance] ELSE a : a \in @}]
Balance(d, account_id) == (CHOOSE a \in d.accounts : a.id = account_id).balance
HasAccount(d, account_id) == \E a \in d.accounts : a.id = account_id


----------------------------------------------------------------------------
(* Reconciliation, webhook path: process_up_bank_transaction               *)

Attempt(d, out, branch, consulted) ==
    [db |-> d, out |-> out, branch |-> branch, consulted |-> consulted]

PayloadAccountId(d, p) ==
    IF p.account = {} THEN NoId ELSE AccountByExternalId(d, MapAccountExternalId(p))

\* The update branch: merge, categorize when empty, commit, recompute the
\* summary of the row's (new) week. The balance is not touched.
WebhookUpdate(d, t0, p, now, account_id) ==
    LET t1 == Merge(t0, p, now, account_id)
        c  == CategorizeIfEmpty(ReplaceTx(d, t0, t1), t1)
    IN Attempt(CalculateForWeek(c.db, WeekStart(c.row.date)), Ret("True"), "update", c.consulted)

\* The create branch: suggest, insert, commit; then, with a linked account,
\* account.balance += amount, which raises after the row is committed (the
\* handler rolls back nothing that was committed, and re-raises).
AfterInsert(d1, row, account_id) ==
    IF account_id # NoId /\ HasAccount(d1, account_id)
    THEN LET sum == DecimalPlusFloat(Balance(d1, account_id), row.amount) IN
         IF sum.raises THEN Attempt(d1, Exc("TypeError", {}, {}), "create", TRUE)
         ELSE Attempt(CalculateForWeek(SetBalance(d1, account_id, sum.value), WeekStart(row.date)),
                      Ret("True"), "create", TRUE)
    ELSE Attempt(CalculateForWeek(d1, WeekStart(row.date)), Ret("True"), "create", TRUE)

WebhookCreate(d, p, now, account_id) ==
    LET s   == SuggestCategory(d, MapDescription(p))
        row == NewTx(s.db, p, now, account_id, s.category_id)
    IN AfterInsert(Insert(s.db, row), row, account_id)

\* One execution of the function body.
WebhookAttempt(d, p, now) ==
    IF p.id = "" \/ p.createdAt.state = "missing"
    THEN Attempt(d, Ret("False"), "skip", FALSE)
    ELSE LET account_id == PayloadAccountId(d, p)
             existing == TxByExternalId(d, p.id)
         IN IF existing # {} THEN WebhookUpdate(d, First(existing), p, now, account_id)
            ELSE WebhookCreate(d, p, now, account_id)

\* The outcome of a call through @retry: the attempts made (their branches,
\* in order), the last attempt's result, the datastore.
Call(a) == [db |-> a.db, out |-> a.out, branches |-> <<a.branch>>, consulted |-> a.consulted]
After(a, r) ==
    [r EXCEPT !.branches = <<a.branch>> \o @, !.consulted = a.consulted \/ @]

\* @retry(exceptions=[Exception], tries=3) around the body: the wrapper's
\* loop, with the sleeps elided.
RECURSIVE ProcessUpBankTransaction(_, _, _, _)
ProcessUpBankTransaction(d, p, now, m) ==
    LET a == WebhookAttempt(d, p, now) IN
    IF a.out.kind # "return" /\ LoopGuard(m) /\ Caught(a.out.kind, WebhookExceptions)
    THEN After(a, ProcessUpBankTransaction(a.db, p, now, m - 1))
    ELSE Call(a)

----------------------------------------------------------------------------
(* Reconciliation, sync path: _process_transaction and the page loop       *)

\* Neither branch touches a balance or a weekly summary.
ProcessTransaction(d, p, now) ==
    IF p.id = "" \/ p.createdAt.state = "missing"
    THEN Attempt(d, Ret("None"), "skip", FALSE)
    ELSE LET account_id == IF p.account = {} THEN NoId ELSE AccountMapGet(d, MapAccountExternalId(p))
             existing == TxByExternalId(d, p.id)
         IN IF existing # {}
            THEN LET t0 == First(existing)
                     t1 == Merge(t0, p, now, account_id)
                     c  == CategorizeIfEmpty(ReplaceTx(d, t0, t1), t1)
                 IN Attempt(c.db, Ret("updated"), "update", c.consulted)
            ELSE LET s == SuggestCategory(d, MapDescription(p))
                 IN Attempt(Insert(s.db, NewTx(s.db, p, now, account_id, s.category_id)),
                            Ret("created"), "create", TRUE)

\* The records of one page, in order; then the page's commit. Returns the
\* datastore, the counts, and the branch taken for each record.
RECURSIVE ProcessPage(_, _, _, _)
ProcessPage(d, page, now, acc) ==
    IF page = <<>> THEN [acc EXCEPT !.db = d]
    ELSE LET p == Head(page) IN
         IF p.id = "" THEN ProcessPage(d, Tail(page), now, acc)
         ELSE LET a == ProcessTransaction(d, p, now) IN
              ProcessPage(a.db, Tail(page), now,
                  [acc EXCEPT !.created = @ + (IF a.out.value = "created" THEN 1 ELSE 0),
                              !.updated = @ + (IF a.out.value = "updated" THEN 1 ELSE 0),
                              !.branches = Append(@, a.branch),
                              !.consulted = @ \/ a.consulted])

SyncTransactions(d, page, now) ==
    ProcessPage(d, page, now,
        [db |-> d, created |-> 0, updated |-> 0, branches |-> <<>>, consulted |-> FALSE])

----------------------------------------------------------------------------
(* Manual add and the two deletions                                        *)

\* add_manual_transaction: the row is added to the session, the balance of
\* a given account is raised by the (float) amount, then all is committed.
\* The TypeError of the addition leaves the request without a commit.
AddManualTransaction(d, date, amount, description, account_id, category_id, is_extra) ==
    LET row == [id |-> d.nextTx, external_id |-> "", date |-> date,
                description |-> description, amount |-> amount,
                is_extra |-> is_extra, source |-> SourceManual,
                category_id |-> category_id, account_id |-> account_id]
        d1 == Insert(d, row)
    IN IF account_id # NoId /\ HasAccount(d, account_id)
       THEN LET sum == DecimalPlusFloat(Balance(d, account_id), amount) IN
            IF sum.raises THEN [db |-> d, out |-> Exc("TypeError", {}, {})]
            ELSE [db |-> CalculateForWeek(SetBalance(d1, account_id, sum.value), WeekStart(date)),
                  out |-> Ret("Transaction")]
       ELSE [db |-> CalculateForWeek(d1, WeekStart(date)), out |-> Ret("Transaction")]

\* The part the two deletions share: revert the balance of the row's
\* account, delete the row, commit, recompute the week's summary.
DeleteRow(d, t) ==
    LET d1 == IF t.account_id # NoId /\ HasAccount(d, t.account_id)
              THEN SetBalance(d, t.account_id, DecimalMinusDecimal(Balance(d, t.account_id), t.amount))
              ELSE d
    IN CalculateForWeek([d1 EXCEPT !.txs = @ \ {t}], WeekStart(t.date))

\* process_transaction_deleted, for a known user: an absent row is a
\* success.
ProcessTransactionDeletedAbsentRaises(d, ext) ==
    IF TxByExternalId(d, ext) = {} THEN [db |-> d, out |-> Exc("LookupError", {}, {})]
    ELSE [db |-> DeleteRow(d, First(TxByExternalId(d, ext))), out |-> Ret("deleted")]
ProcessTransactionDeleted(d, ext) ==
    LET found == TxByExternalId(d, ext) IN
    IF found = {} THEN [db |-> d, out |-> Ret("already deleted")]
    ELSE [db |-> DeleteRow(d, First(found)), out |-> Ret("deleted")]

\* delete_transaction(transaction_id, user_id)
DeleteTransaction(d, id) ==
    LET found == {t \in d.txs : t.id = id} IN
    IF found = {} THEN [db |-> d, out |-> Ret("False")]
    ELSE [db |-> DeleteRow(d, First(found)), out |-> Ret("True")]


----------------------------------------------------------------------------
(* The operations as steps of one user's ledger                            *)

MaxOps == 3
MaxTicks == 1
Today0 == 10
InitialBalance == 10000
WebhookTries == 3

DescColes == <<"C","o","l","e","s"," ","L","o","c","a","l">>
DescUber == <<"U","b","e","r">>
DescRent == <<"R","e","n","t">>

CreatedAt(state, day) == [state |-> state, day |-> day]

\* The remote records the environment may deliver.
Payloads(s) ==
    IF s = "ledger"
    THEN {q \in [id : {"e1"},
                  description : {{DescColes}, {DescRent}},
                  rawText : {{}, {DescUber}},
                  createdAt : {CreatedAt("ok", 2), CreatedAt("bad", 0)},
                  value : {{0 - 4250}, {1000}},
                  account : {{}, {AccountExternalId}}] :
             /\ q.rawText # {} => q.description = {DescRent}
             /\ q.account # {} <=> q.value = {0 - 4250}}
    ELSE IF s = "timestamp"
    THEN {[id |-> "e1", description |-> {DescColes}, rawText |-> {},
           createdAt |-> c, value |-> {w[1]}, account |-> w[2]] :
             c \in {CreatedAt("missing", 0), CreatedAt("bad", 0), CreatedAt("ok", 2)},
             w \in {<<0 - 4250, {AccountExternalId}>>, <<1000, {}>>}}
    ELSE {[id |-> w[1], description |-> {DescColes}, rawText |-> {},
           createdAt |-> CreatedAt("ok", 2), value |-> {w[2]}, account |-> {}] :
             w \in {<<"e1", 10>>, <<"e2", 20>>, <<"e3", 30>>}}

NoPayload ==
    [id |-> "", description |-> {}, rawText |-> {}, createdAt |-> CreatedAt("missing", 0),
     value |-> {}, account |-> {}]

\* hist keeps the last two operations.
Record(h, e) == IF Len(h) < 2 THEN Append(h, e) ELSE <<h[2], e>>

Did(op, p, key, out, branches, consulted, post) ==
    /\ hist' = Record(hist, [op |-> op, payload |-> p, key |-> key, out |-> out,
                             branches |-> branches, consulted |-> consulted,
                             now |-> today, pre |-> db, post |-> post])
    /\ db' = post
    /\ ops' = ops + 1
    /\ UNCHANGED <<today, scn, retryVars, procs>>

\* A webhook delivery reaching process_up_bank_transaction.
WebhookReconcile ==
    /\ ops < MaxOps
    /\ \E p \in Payloads(scn) :
         \E r \in {ProcessUpBankTransaction(db, p, today, WebhookTries)} :
         Did("webhook", p, 0, r.out, r.branches, r.consulted, r.db)

\* A sync run whose one page holds one record.
SyncRun ==
    /\ ops < MaxOps
    /\ \E p \in Payloads(scn) :
         \E r \in {SyncTransactions(db, <<p>>, today)} :
         Did("sync", p, 0,
             Ret(IF r.created > 0 THEN "created" ELSE IF r.updated > 0 THEN "updated" ELSE "None"),
             r.branches, r.consulted, r.db)

\* The add form: the user picks one of their categories, or none.
ManualAdd ==
    /\ ops < MaxOps
    /\ \E account_id \in {NoId, AccountId},
          category_id \in {NoId} \cup {c.id : c \in db.categories},
          amount \in (IF scn = "ledger" THEN {0 - 4250} ELSE {0 - 4250, 20}),
          is_extra \in (IF scn = "ledger" THEN {FALSE} ELSE BOOLEAN) :
         \E r \in {AddManualTransaction(db, 2, amount, DescColes, account_id, category_id, is_extra)} :
         Did("manual", NoPayload, 0, r.out,
             IF r.out.kind = "return" THEN <<"create">> ELSE <<>>, FALSE, r.db)

\* A TRANSACTION_DELETED delivery.
WebhookDelete ==
    /\ ops < MaxOps
    /\ scn = "ledger"
    /\ \E ext \in {q.id : q \in Payloads(scn)} :
         \E r \in {ProcessTransactionDeleted(db, ext)} :
            Did("webhook_delete", NoPayload, 0, r.out, <<>>, FALSE, r.db)

\* The delete button, for an id the user may or may not own a row of.
ServiceDelete ==
    /\ ops < MaxOps
    /\ scn = "ledger"
    /\ \E id \in 1..db.nextTx :
         \E r \in {DeleteTransaction(db, id)} :
         Did("service_delete", NoPayload, id, r.out, <<>>, FALSE, r.db)

\* Midnight passes.
Tick ==
    /\ today < Today0 + MaxTicks
    /\ today' = today + 1
    /\ UNCHANGED <<db, ops, hist, scn, retryVars, procs>>

Init ==
    /\ RetryIdle
    /\ ProcsIdle
    /\ db = EmptyDb(InitialBalance)
    /\ today = Today0
    /\ ops = 0
    /\ hist = <<>>
    /\ scn = "ledger"

Next == WebhookReconcile \/ SyncRun \/ ManualAdd \/ WebhookDelete \/ ServiceDelete \/ Tick

Spec == Init /\ [][Next]_vars


----------------------------------------------------------------------------
(* Properties of the ledger                                                *)

Stored(d, ext) == {t \in d.txs : t.external_id = ext}
ValidRecord(p) == p.id # "" /\ p.createdAt.state # "missing"
IsReconcile(e) == e.op \in {"sync", "webhook"} /\ ValidRecord(e.payload)
Last == hist[Len(hist)]

\* The last two operations reconciled the same record through the same
\* path, and no row of that external id was stored before the first.
ReconciledTwice ==
    /\ Len(hist) = 2
    /\ IsReconcile(hist[1])
    /\ hist[2].op = hist[1].op
    /\ hist[2].payload = hist[1].payload
    /\ Stored(hist[1].pre, hist[1].payload.id) = {}

UpsertedOnce ==
    /\ Cardinality(Stored(db, hist[1].payload.id)) = 1
    /\ Head(hist[1].branches) = "create"
    /\ hist[2].branches = <<"update">>
    /\ Stored(hist[2].post, hist[1].payload.id) = Stored(hist[1].post, hist[1].payload.id)

CreatedLinked(e) ==
    {t \in e.post.txs : t.account_id = AccountId /\ ~\E u \in e.pre.txs : u.id = t.id}

\* C3: creating a transaction linked to an account (by sync, webhook or
\* manual add) and then deleting it (by the deleted webhook or
\* delete_transaction) leaves the account's balance equal to its value
\* before the creation.
C3_CreateDeleteRestoresBalance ==
    (/\ Len(hist) = 2
     /\ hist[1].op \in {"sync", "webhook", "manual"}
     /\ hist[2].op \in {"webhook_delete", "service_delete"}
     /\ \E t \in CreatedLinked(hist[1]) :
           t \in hist[2].pre.txs /\ ~\E u \in hist[2].post.txs : u.id = t.id)
        => Balance(hist[2].post, AccountId) = Balance(hist[1].pre, AccountId)

\* C5: a reconciliation that updates a row which already has a category
\* leaves category_id unchanged, whatever the new amount, description, date
\* or account; the heuristic is consulted on update only when the stored
\* category is empty.
C5_CategoryPreserved ==
    (Len(hist) > 0 /\ IsReconcile(Last))
        => \A t \in Stored(Last.pre, Last.payload.id) :
              t.category_id # NoId =>
                 /\ Stored(Last.post, Last.payload.id) # {}
                 /\ \A u \in Stored(Last.post, Last.payload.id) : u.category_id = t.category_id
                 /\ ~Last.consulted

C5_Witness ==
    /\ Len(hist) > 0
    /\ IsReconcile(Last)
    /\ \E t \in Stored(Last.pre, Last.payload.id) :
          /\ t.category_id # NoId
          /\ SuggestCategory(Last.pre, MapDescription(Last.payload)).category_id \notin {NoId, t.category_id}
          /\ \E u \in Stored(Last.post, Last.payload.id) :
                /\ u.category_id = t.category_id
                /\ u.description # t.description
                /\ u.amount # t.amount
                /\ u.date # t.date
                /\ u.account_id # t.account_id


----------------------------------------------------------------------------
(* One week filled in different orders                                     *)

InitWeekly ==
    /\ RetryIdle
    /\ ProcsIdle
    /\ db = EmptyDb(InitialBalance)
    /\ today = Today0
    /\ ops = 0
    /\ hist = <<>>
    /\ scn = "weekly"

NextWeekly == WebhookReconcile \/ ManualAdd

SpecWeekly == InitWeekly /\ [][NextWeekly]_vars

\* The rows of a set by ascending amount (equal amounts by id): the order
\* in which calculate_for_week reads them when they were inserted by
\* ascending amount.
RECURSIVE ByAmount(_)
ByAmount(S) ==
    IF S = {} THEN <<>>
    ELSE LET r == CHOOSE x \in S : \A y \in S :
                     x.amount < y.amount \/ (x.amount = y.amount /\ x.id <= y.id)
         IN <<r>> \o ByAmount(S \ {r})

InWeek(d, start) == {t \in d.txs : t.date >= start /\ t.date <= start + 6}

\* C4: the weekly summary (total_amount, total_expenses, total_income,
\* total_extras, category_totals) depends only on the set of transactions
\* inserted into the week, not on their insertion order: it is the summary
\* of the same set inserted in any other order, such as by ascending amount.
C4_SummaryOrderIndependent ==
    \A s \in db.summaries :
        s = Summarize(ByAmount(InWeek(db, s.week_start_date)), s.week_start_date)

\* The four decimal totals alone do not depend on the order.
C4_DecimalTotalsOrderIndependent ==
    \A s \in db.summaries :
        LET c == Summarize(ByAmount(InWeek(db, s.week_start_date)), s.week_start_date) IN
        /\ s.total_amount = c.total_amount
        /\ s.total_expenses = c.total_expenses
        /\ s.total_income = c.total_income
        /\ s.total_extras = c.total_extras


----------------------------------------------------------------------------
(* Two requests reconciling one new external id at the same time           *)

\* A request in flight: a webhook delivery in process_up_bank_transaction
\* (under @retry), or a sync run in sync_transactions with the record on
\* its page. Each has its own session: pending holds the row added to the
\* session and not yet committed.
Request(kind, p) ==
    [kind |-> kind, payload |-> p, pc |-> "lookup", mtries |-> WebhookTries,
     pending |-> {}, inserted |-> FALSE, created_count |-> 0, updated_count |-> 0,
     out |-> NoResult, branches |-> <<>>]

RacePayloads ==
    {q \in Payloads("ledger") :
        q.createdAt.state = "ok" /\ q.rawText = {} /\ q.value = {0 - 4250}}

\* The unique constraint on transactions.external_id, as an INSERT meets it.
HasUniqueExternalId(d, ext) == \E t \in d.txs : t.external_id = ext

\* The body raised inside the webhook's retry wrapper: sleep and try again,
\* or let the exception out.
RaceRaise(pr, kind) ==
    IF LoopGuard(pr.mtries) /\ Caught(kind, WebhookExceptions)
    THEN [pr EXCEPT !.pc = "sleeping", !.pending = {}]
    ELSE [pr EXCEPT !.pc = "done", !.pending = {}, !.out = Exc(kind, {}, {})]

\* filter_by(external_id, user_id).first(), over the committed rows. A row
\* found is updated and committed on the spot; no row found leads to the
\* create branch.
RaceLookup(r) ==
    LET pr == procs[r]
        p == pr.payload
        existing == TxByExternalId(db, p.id)
    IN /\ pr.pc = "lookup"
       /\ IF existing = {}
          THEN /\ procs' = [procs EXCEPT ![r] = [pr EXCEPT !.pc = "insert"]]
               /\ db' = db
          ELSE IF pr.kind = "webhook"
          THEN \E a \in {WebhookUpdate(db, First(existing), p, today, PayloadAccountId(db, p))} :
               /\ db' = a.db
               /\ procs' = [procs EXCEPT ![r] =
                     [pr EXCEPT !.pc = "done", !.out = a.out, !.branches = Append(@, a.branch)]]
          ELSE \E a \in {ProcessTransaction(db, p, today)} :
               /\ db' = a.db
               /\ procs' = [procs EXCEPT ![r] =
                     [pr EXCEPT !.pc = "done", !.updated_count = @ + 1,
                                !.out = Ret("counts"), !.branches = Append(@, a.branch)]]
       /\ UNCHANGED <<today, ops, hist, scn, retryVars>>

\* The create branch up to db.session.add(new_tx); the sync run counts the
\* record as created here.
RaceInsert(r) ==
    LET pr == procs[r]
        p == pr.payload
        s == SuggestCategory(db, MapDescription(p))
        row == NewTx(s.db, p, today, PayloadAccountId(db, p), s.category_id)
    IN /\ pr.pc = "insert"
       /\ db' = s.db
       /\ procs' = [procs EXCEPT ![r] =
             [pr EXCEPT !.pc = "commit", !.pending = {row},
                        !.branches = Append(@, "create"),
                        !.created_count = IF pr.kind = "sync" THEN @ + 1 ELSE @]]
       /\ UNCHANGED <<today, ops, hist, scn, retryVars>>

\* db.session.commit(): the INSERT is flushed and meets the unique
\* constraint. The webhook handler rolls back and re-raises into its retry
\* wrapper; the sync run's `except Exception as page_e` leaves the page
\* loop and returns its counts.
RaceCommit(r) ==
    LET pr == procs[r]
        p == pr.payload
        row == [(CHOOSE x \in pr.pending : TRUE) EXCEPT !.id = db.nextTx]
    IN /\ pr.pc = "commit"
       /\ IF HasUniqueExternalId(db, p.id)
          THEN /\ db' = db
               /\ procs' = [procs EXCEPT ![r] =
                     IF pr.kind = "webhook" THEN RaceRaise(pr, "IntegrityError")
                     ELSE [pr EXCEPT !.pc = "done", !.out = Ret("counts")]]
          ELSE IF pr.kind = "webhook"
          THEN \E a \in {AfterInsert(Insert(db, row), row, row.account_id)} :
               /\ db' = a.db
               /\ procs' = [procs EXCEPT ![r] =
                     IF a.out.kind = "return"
                     THEN [pr EXCEPT !.pc = "done", !.pending = {}, !.inserted = TRUE, !.out = a.out]
                     ELSE RaceRaise([pr EXCEPT !.inserted = TRUE], a.out.kind)]
          ELSE /\ db' = Insert(db, row)
               /\ procs' = [procs EXCEPT ![r] =
                     [pr EXCEPT !.pc = "done", !.pending = {}, !.inserted = TRUE,
                                !.out = Ret("counts")]]
       /\ UNCHANGED <<today, ops, hist, scn, retryVars>>

\* time.sleep, mtries -= 1, and the loop calls the body again.
RaceSleep(r) ==
    /\ procs[r].pc = "sleeping"
    /\ procs' = [procs EXCEPT ![r] = [@ EXCEPT !.pc = "lookup", !.mtries = @ - 1]]
    /\ UNCHANGED <<db, today, ops, hist, scn, retryVars>>

InitRace ==
    /\ RetryIdle
    /\ db = EmptyDb(InitialBalance)
    /\ today = Today0
    /\ ops = 0
    /\ hist = <<>>
    /\ scn = "race"
    /\ \E p \in RacePayloads, k \in {"webhook", "sync"}, order \in {1, 2} :
          procs = IF order = 1 THEN <<Request("webhook", p), Request(k, p)>>
                  ELSE <<Request(k, p), Request("webhook", p)>>

NextRace ==
    \E r \in DOMAIN procs : RaceLookup(r) \/ RaceInsert(r) \/ RaceCommit(r) \/ RaceSleep(r)

SpecRace == InitRace /\ [][NextRace]_vars

\* What a request reports: a sync run through its counts, a webhook call
\* through the branch that stored its row.
Outcome(pr) ==
    IF pr.kind = "sync"
    THEN (IF pr.created_count > 0 THEN "created"
          ELSE IF pr.updated_count > 0 THEN "updated" ELSE "none")
    ELSE (IF pr.inserted THEN "created"
          ELSE IF pr.out.kind = "return" /\ pr.out.value = "True" THEN "updated"
          ELSE "failed")

RaceOver == \A r \in DOMAIN procs : procs[r].pc = "done"

\* C2: two concurrent reconciliations of the same new external id (two
\* webhook deliveries, or a webhook and a sync run), in every interleaving
\* of their lookup, insert and commit steps, end with exactly one stored
\* row of that id, one of them reporting created and the other updated.
C2_RaceOneCreatedOneUpdated ==
    RaceOver =>
        /\ Cardinality(Stored(db, procs[1].payload.id)) = 1
        /\ {Outcome(procs[1]), Outcome(procs[2])} = {"created", "updated"}

\* Between two webhook deliveries the loser of the unique constraint does
\* fall back to the update branch.
C2_WebhooksOnly ==
    (RaceOver /\ procs[1].kind = "webhook" /\ procs[2].kind = "webhook")
        => /\ Cardinality(Stored(db, procs[1].payload.id)) = 1
           /\ {Outcome(procs[1]), Outcome(procs[2])} = {"created", "updated"}

----------------------------------------------------------------------------
----------------------------------------------------------------------------
(* A whole sync run: bank_service.sync_transactions calling                *)
(* UpBankAPI.sync_transactions, page by page, against an upstream          *)

MaxFailures == 5
SummaryDays == 30
MaxPages == 3
PageSize == 4

\* A URL is the path of its segments after the host, and the page its
\* query selects. base_url is https://api.up.com.au/api/v1.
BasePath == <<"api", "v1">>
TransactionsPath == <<"transactions">>

\* endpoint = f"transactions?filter[since]={since_date}"
FirstEndpoint == [path |-> TransactionsPath, page |-> 1]

\* _make_request: url = f"{self.base_url}/{endpoint}" (a leading slash of
\* the endpoint removed).
RequestUrl(endpoint) == [path |-> BasePath \o endpoint.path, page |-> endpoint.page]

\* links.next as the upstream writes it for page i: the full URL of the page
\* or the path relative to the API root.
NextLink(form, i) ==
    [form |-> form,
     path |-> IF form = "absolute" THEN BasePath \o TransactionsPath ELSE TransactionsPath,
     page |-> i]

\* The endpoint taken from next_url: urlparse(next_url).path and query for a
\* URL starting with http, next_url itself otherwise; a leading slash
\* removed in both cases.
NextEndpointStays(next) == [path |-> next.path, page |-> next.page - 1]
NextEndpoint(next) ==
    IF next.form = "absolute"
    THEN [path |-> next.path, page |-> next.page]
    ELSE [path |-> next.path, page |-> next.page]

\* A record of a page: its id, whether its "attributes" member is null, and
\* the members of the attributes and relationships objects.
SyncIds == <<"t1", "t2", "t3", "t4", "t5", "t6", "t7", "t8",
             "t9", "t10", "t11", "t12", "t13", "t14", "t15", "t16",
             "t17", "t18", "t19", "t20", "t21", "t22", "t23", "t24", "t25">>

\* start_date = end_date - timedelta(days=days_back): the day the run asks
\* the upstream for transactions since.
SinceDate(now) == now - SummaryDays

\* The second record of the chain is dated on the since-date of the run,
\* the others on day 2.
TxData(n, shape) ==
    [id |-> SyncIds[n], null_attributes |-> (shape = "null"),
     payload |-> [id |-> SyncIds[n],
                  description |-> {IF n = 1 THEN DescColes ELSE DescRent},
                  rawText |-> {},
                  createdAt |-> CreatedAt("ok", IF n = 2 THEN SinceDate(Today0) ELSE 2),
                  value |-> {0 - (100 * n)}, account |-> {}]]

\* _process_transaction on a record as delivered: attributes.get(...) on a
\* null "attributes" raises AttributeError before anything is stored.
ProcessTransactionData(d, tx, now) ==
    IF tx.id = "" THEN Attempt(d, Ret("None"), "skip", FALSE)
    ELSE IF tx.null_attributes THEN Attempt(d, Exc("AttributeError", {}, {}), "raise", FALSE)
    ELSE ProcessTransaction(d, tx.payload, now)

\* The upstream of a run: its chain of pages, the form of its next links,
\* and the requests it fails (requests at..at+times-1, counted over the
\* run, get the response `fault`).
NoFault == [at |-> 1, times |-> 0, fault |-> Resp(200, "absent", TRUE)]

SyncFaults ==
    {Fail("ConnectionError"), Fail("Timeout"), Resp(429, "absent", TRUE),
     Resp(401, "absent", TRUE), Resp(404, "absent", TRUE), Resp(500, "absent", FALSE)}

PageOf(shapes, i) == [j \in 1..PageSize |-> TxData((i - 1) * PageSize + j, shapes[(i - 1) * PageSize + j])]

Upstream(k, c, sh, f) == [pages |-> [i \in 1..k |-> PageOf(sh, i)], cursor |-> c, faults |-> f]

\* The upstreams of the model: every pattern of null records with relative
\* links and no failed request; every failed request and both forms of
\* link with records that are all well formed.
Upstreams ==
    {Upstream(k, "relative", sh, NoFault) :
        k \in 1..MaxPages, sh \in [1..(MaxPages * PageSize) -> {"ok", "null"}]}
    \cup
    {Upstream(k, c, [n \in 1..(MaxPages * PageSize) |-> "ok"], f) :
        k \in 1..MaxPages, c \in {"absolute", "relative"},
        f \in {NoFault} \cup [at : 1..MaxPages, times : 1..MAX_RETRIES, fault : SyncFaults]}

\* What the upstream answers to the n-th request of the run, for url.
UpstreamResponse(up, n, url) ==
    IF n >= up.faults.at /\ n < up.faults.at + up.faults.times THEN up.faults.fault
    ELSE IF url.path = BasePath \o TransactionsPath /\ url.page \in 1..Len(up.pages)
    THEN Resp(200, "absent", TRUE)
    ELSE Resp(404, "absent", TRUE)

\* links.next of page i: {} is no link.
LinksNext(up, i) == IF i < Len(up.pages) THEN {NextLink(up.cursor, i + 1)} ELSE {}

\* `len(failed_transactions) >= max_failures`, in the record loop and
\* before following the next link.
CeilingOffByOne(n) == n > MaxFailures
CeilingReached(n) == n >= MaxFailures

\* The state of a run: the local variables of sync_transactions, the
\* session (the datastore with the uncommitted changes of the page), and
\* the tuple the service returns.
NoOutcome == [success |-> FALSE, message |-> "", created |-> 0, updated |-> 0, count |-> 0]

NewRun(d) ==
    [pc |-> "fetch", endpoint |-> FirstEndpoint, page |-> <<>>, next |-> {},
     created_count |-> 0, updated_count |-> 0, failed_transactions |-> <<>>,
     session |-> d, attempted |-> <<>>, fetch_error |-> {}, outcome |-> NoOutcome]

\* The two except clauses of the page loop: both log and break, the counts
\* are kept.
OnFetchErrorResetsCounts(run, o) ==
    [run EXCEPT !.pc = "return", !.fetch_error = {o}, !.created_count = 0, !.updated_count = 0]
OnFetchError(run, o) == [run EXCEPT !.pc = "return", !.fetch_error = {o}]

\* response = self._make_request('get', endpoint): a page, or an exception
\* that one of the two except clauses of the page loop catches to break.
SyncFetch ==
    /\ procs.pc = "fetch"
    /\ \E url \in {RequestUrl(procs.endpoint)} :
       \E o \in {MakeRequest(UpstreamResponse(script, requests + 1, url))} :
         /\ requests' = requests + 1
         /\ seen' = Append(seen, [url |-> url, out |-> o,
                                  failures |-> Len(procs.failed_transactions)])
         /\ procs' = IF o.kind = "return"
                     THEN [procs EXCEPT !.pc = "records",
                                        !.page = script.pages[url.page],
                                        !.next = LinksNext(script, url.page)]
                     ELSE OnFetchError(procs, o)
    /\ UNCHANGED <<rcfg, script, mtries, mdelay, rpc, calls, sleeps, result, dbVars>>

\* The commit inside suggest_category_for_transaction, met while record p
\* is processed on session s with result a: it commits the session as it
\* is then, the new row not yet added, the merged row not yet categorized.
CommittedBySuggest(s, a, p) ==
    [a.db EXCEPT !.txs = {IF t.external_id = p.id THEN [t EXCEPT !.category_id = NoId] ELSE t :
                            t \in {u \in @ : u.id # s.nextTx}}]

\* One turn of `for tx_data in transactions`.
SyncRecord ==
    /\ procs.pc = "records"
    /\ procs.page # <<>>
    /\ \E tx \in {Head(procs.page)} :
       \E a \in {ProcessTransactionData(procs.session, tx, today)} :
       \E log \in {Append(procs.attempted,
                          [id |-> tx.id, out |-> a.out,
                           failures |-> Len(procs.failed_transactions)])} :
         IF a.out.kind = "return"
         THEN /\ procs' = [procs EXCEPT
                    !.page = Tail(@), !.session = a.db, !.attempted = log,
                    !.created_count = @ + (IF a.out.value = "created" THEN 1 ELSE 0),
                    !.updated_count = @ + (IF a.out.value = "updated" THEN 1 ELSE 0)]
              /\ db' = IF a.db.nextCat # procs.session.nextCat
                       THEN CommittedBySuggest(procs.session, a, tx) ELSE db
         ELSE /\ procs' = [procs EXCEPT
                    !.failed_transactions = Append(@, tx.id), !.attempted = log,
                    !.page = IF CeilingReached(Len(procs.failed_transactions) + 1)
                             THEN <<>> ELSE Tail(@)]
              /\ db' = db
    /\ UNCHANGED <<retryVars, today, ops, hist, scn>>

\* db.session.commit(): the session's changes become the datastore.
CommitNothing(committed, session) == committed
CommitPage(committed, session) == session

\* db.session.commit() after the records of the page, then the next link.
SyncCommit ==
    /\ procs.pc = "records"
    /\ procs.page = <<>>
    /\ db' = CommitPage(db, procs.session)
    /\ procs' = IF procs.next = {} \/ CeilingReached(Len(procs.failed_transactions))
                THEN [procs EXCEPT !.pc = "return"]
                ELSE [procs EXCEPT !.pc = "fetch",
                                   !.endpoint = NextEndpoint(CHOOSE x \in procs.next : TRUE)]
    /\ UNCHANGED <<retryVars, today, ops, hist, scn>>

\* update_weekly_summaries(user_id): calculate_for_week for every Monday of
\* the last `days` days.
Mondays(now, days) ==
    LET S == {m \in (now - days)..now : Weekday(m) = 0} IN
    IF S = {} THEN {WeekStart(now - days)} ELSE S

RECURSIVE CalculateForWeeks(_, _)
CalculateForWeeks(d, S) ==
    IF S = {} THEN d
    ELSE LET m == CHOOSE x \in S : \A y \in S : x <= y
         IN CalculateForWeeks(CalculateForWeek(d, m), S \ {m})

UpdateWeeklySummaries(d, now) == CalculateForWeeks(d, Mondays(now, SummaryDays))

\* The service's sync_transactions once api.sync_transactions has returned
\* (created, updated): the summaries when a count is positive, and the
\* tuple (True, "Synced {created} new and {updated} existing transactions",
\* created + updated).
ServiceOutcome(created, updated) ==
    [success |-> TRUE, message |-> "Synced", created |-> created, updated |-> updated,
     count |-> created + updated]

SyncReturn ==
    /\ procs.pc = "return"
    /\ \E c \in {procs.created_count}, u \in {procs.updated_count} :
         /\ db' = IF c > 0 \/ u > 0 THEN UpdateWeeklySummaries(db, today) ELSE db
         /\ procs' = [procs EXCEPT !.pc = "done", !.outcome = ServiceOutcome(c, u)]
    /\ UNCHANGED <<retryVars, today, ops, hist, scn>>

\* A run against every upstream, on an empty ledger or (for an upstream of
\* one page) on one that holds a row of the first record.
StoredFirst(d) ==
    Insert(d, NewTx(d, TxData(1, "ok").payload, Today0, NoId, NoId))

InitSync ==
    /\ rcfg = <<>> /\ mtries = 0 /\ mdelay = 0 /\ rpc = "idle" /\ calls = 0
    /\ sleeps = <<>> /\ result = <<>>
    /\ requests = 0 /\ seen = <<>>
    /\ script \in Upstreams
    /\ db \in {EmptyDb(InitialBalance)} \cup
              (IF script.faults = NoFault /\ Len(script.pages) = 1
               THEN {StoredFirst(EmptyDb(InitialBalance))} ELSE {})
    /\ procs = NewRun(db)
    /\ today = Today0 /\ ops = 0 /\ scn = "sync"
    /\ hist = <<[op |-> "start", pre |-> db]>>

NextSync == SyncFetch \/ SyncRecord \/ SyncCommit \/ SyncReturn

SpecSync == InitSync /\ [][NextSync]_vars

----------------------------------------------------------------------------
(* Claims about a sync run                                                 *)

RunDone == scn = "sync" /\ procs.pc = "done"
RunStart == hist[1].pre

AllRecordsOk == \A i \in 1..Len(script.pages) : \A j \in 1..PageSize :
                    ~script.pages[i][j].null_attributes

RetryableFault(r) ==
    r \in {Fail("ConnectionError"), Fail("Timeout"), Resp(429, "absent", TRUE)}

\* The requests of the run that asked for page i of the transactions.
FetchesOf(i) == {n \in 1..Len(seen) : seen[n].url.page = i}

\* The records of page i that the run reported with `value`.
Reported(i, value) ==
    {j \in 1..PageSize : \E n \in 1..Len(procs.attempted) :
        /\ procs.attempted[n].id = script.pages[i][j].id
        /\ procs.attempted[n].out = Ret(value)}

\* C11: a sync run one of whose page fetches fails twice with a retryable
\* error (connection error, timeout, rate limit) and then would succeed has
\* made exactly 3 fetch attempts for that page and returns the page's
\* records as created.
C11_PageFetchRetried ==
    (/\ RunDone
     /\ script.cursor = "relative"
     /\ script.faults.times = 2
     /\ script.faults.at <= Len(script.pages)
     /\ RetryableFault(script.faults.fault))
    => /\ Cardinality(FetchesOf(script.faults.at)) = 3
       /\ Reported(script.faults.at, "created") = 1..PageSize

C13_FollowsEveryPage ==
    (RunDone /\ script.faults = NoFault /\ AllRecordsOk /\ RunStart.txs = {})
    => /\ seen = [i \in 1..Len(script.pages) |->
                    [url |-> [path |-> BasePath \o TransactionsPath, page |-> i],
                     out |-> Ret("json"), failures |-> 0]]
       /\ procs.outcome.created = Len(script.pages) * PageSize
       /\ procs.outcome.updated = 0

\* The same for an upstream whose next links are relative paths.
C13_RelativeCursors == script.cursor = "relative" => C13_FollowsEveryPage

\* C14: when a page fetch of the run has failed for good, the caller of the
\* service's sync_transactions does not get the success flag and message of
\* a run that completed every page.
C14_FetchFailureReported ==
    (RunDone /\ procs.fetch_error # {})
    => ~(procs.outcome.success /\ procs.outcome.message = "Synced")

----------------------------------------------------------------------------
----------------------------------------------------------------------------
(* The webhook endpoint: signature verification, process_webhook and the   *)
(* three event handlers                                                    *)

\* The one element of a singleton: The({F(x) : x \in {e}}) is F(e) with e
\* evaluated once.
The(S) == CHOOSE x \in S : TRUE

\* A webhook payload: data.attributes.eventType, the ids of
\* data.relationships.transaction.data and data.relationships.account.data
\* ({} when missing), and whether data.relationships is null.
Event(type, transaction, account, null_relationships) ==
    [event_type |-> type, transaction |-> transaction, account |-> account,
     null_relationships |-> null_relationships]

NoEvent == Event({}, {}, {}, FALSE)

\* A string that may be sent as X-Up-Authenticity-Signature: the hex digest
\* of a keyed hash, the empty string, other ASCII text, or text with a
\* character outside ASCII.
Text(kind) == [kind |-> kind, key |-> "", msg |-> NoEvent]

\* hmac.new(webhook_secret.encode('utf-8'), request_data, sha256).hexdigest():
\* the hash is taken to be collision free, so that the digest stands for the
\* pair (key, message).
HexDigestUnkeyed(secret, request_data) == [kind |-> "digest", key |-> "", msg |-> request_data]
HexDigest(secret, request_data) == [kind |-> "digest", key |-> secret, msg |-> request_data]

\* hmac.compare_digest(a, b) of two str: TypeError when one of them has a
\* character outside ASCII, equality otherwise.
CompareDigest(a, b) ==
    IF a.kind = "nonascii" \/ b.kind = "nonascii"
    THEN [raises |-> TRUE, value |-> FALSE]
    ELSE [raises |-> FALSE, value |-> (a = b)]

\* verify_webhook_signature(request_data, signature, webhook_secret); an
\* optional argument is the set of its values, {} for None.
VerifyAcceptsAll(request_data, signature, webhook_secret) == TRUE
VerifyWebhookSignature(request_data, signature, webhook_secret) ==
    IF webhook_secret \in {{}, {""}} \/ signature \in {{}, {Text("empty")}} THEN FALSE
    ELSE LET c == CompareDigest(HexDigest(The(webhook_secret), request_data), The(signature))
         IN IF c.raises THEN FALSE ELSE c.value

\* A result dict {"success": ..., "message": ...}.
Dict(success, message) ==
    [kind |-> "return", value |-> message, status_code |-> {}, retry_after |-> {},
     success |-> success]

\* What a handler has done when it returns or raises: the datastore, the
\* result, the fetches made from the upstream so far, the sleeps of the
\* retry wrappers, and the branches of the reconciliations made.
Handled(d, out, fetches, slept, branches) ==
    [db |-> d, out |-> out, fetches |-> fetches, sleeps |-> slept, branches |-> branches]

\* The checks that open process_transaction_created and
\* process_transaction_deleted when no user_id is passed: the message of the
\* failure, "" when the event names a transaction and a known account.
ResolveFailure(d, ev) ==
    IF ev.transaction = {} THEN "Missing transaction data in webhook"
    ELSE IF ev.account = {} THEN "Missing account data in webhook"
    ELSE IF AccountByExternalId(d, The(ev.account)) = NoId THEN "Account not found"
    ELSE ""

\* What the upstream answers to the n-th fetch of a delivery: up[n], and the
\* transaction itself after that. An answer is a response and the "data"
\* member of its body ({} when it has none).
Answer(resp, data) == [resp |-> resp, data |-> data]

UpstreamTransaction(account) ==
    [id |-> "e1", description |-> {DescColes}, rawText |-> {},
     createdAt |-> CreatedAt("ok", 2), value |-> {0 - 4250}, account |-> account]

FetchAnswer(up, n) ==
    IF n <= Len(up) THEN up[n]
    ELSE Answer(Resp(200, "absent", TRUE), {UpstreamTransaction({AccountExternalId})})

\* get_transaction_by_id: response.get('data'), and None for any exception
\* of _make_request (`except Exception: return None`), so that its @retry
\* never sees one.
GetTransactionById(answer) ==
    IF MakeRequest(answer.resp).kind = "return" THEN answer.data ELSE {}

\* `if not transaction:` in process_transaction_created.
NoTransactionRaises(transaction_id) == Exc("ConnectionError", {}, {})
NoTransaction(transaction_id) == Dict(FALSE, "Failed to retrieve transaction")

\* The except clauses of process_transaction_created applied to what its
\* try block raised: an UpBankError is re-raised when its status_code is 429
\* or >= 500 and turned into a failure result otherwise; any other
\* exception is re-raised.
CreatedExcept(e) ==
    IF IsSubclass(e.kind, "UpBankError")
    THEN IF \E sc \in e.status_code : sc = 429 \/ sc >= 500 THEN e
         ELSE Dict(FALSE, "Up Bank API error")
    ELSE e

\* One execution of the body of process_transaction_created, n fetches
\* having been made before it.
CreatedBody(d, ev, up, n, now) ==
    IF ev.null_relationships THEN Handled(d, CreatedExcept(Exc("AttributeError", {}, {})), n, 0, <<>>)
    ELSE IF ResolveFailure(d, ev) # "" THEN Handled(d, Dict(FALSE, ResolveFailure(d, ev)), n, 0, <<>>)
    ELSE The({
         IF transaction = {}
         THEN The({Handled(d, IF o.kind = "return" THEN o ELSE CreatedExcept(o), n + 1, 0, <<>>) :
                     o \in {NoTransaction(The(ev.transaction))}})
         ELSE The({
              IF r.out.kind # "return"
              THEN Handled(r.db, CreatedExcept(r.out), n + 1, Len(r.branches) - 1, r.branches)
              ELSE IF r.out.value = "True"
              THEN Handled(r.db, Dict(TRUE, "Transaction created"), n + 1, Len(r.branches) - 1, r.branches)
              ELSE Handled(r.db, Dict(FALSE, "Failed to process transaction"), n + 1,
                           Len(r.branches) - 1, r.branches) :
                r \in {ProcessUpBankTransaction(d, The(transaction), now, WebhookTries)}})
         : transaction \in {GetTransactionById(FetchAnswer(up, n + 1))}})

\* The retry wrapper's account of an attempt a followed by the rest r.
Retried(a, r) == [r EXCEPT !.sleeps = @ + a.sleeps + 1, !.branches = a.branches \o @]

\* process_transaction_created under @retry(exceptions=[Exception], tries=3).
RECURSIVE ProcessTransactionCreated(_, _, _, _, _, _)
ProcessTransactionCreated(d, ev, up, n, now, m) ==
    The({IF a.out.kind # "return" /\ LoopGuard(m) /\ Caught(a.out.kind, WebhookExceptions)
         THEN Retried(a, ProcessTransactionCreated(a.db, ev, up, a.fetches, now, m - 1))
         ELSE a :
           a \in {CreatedBody(d, ev, up, n, now)}})

\* process_transaction_settled: the same wrapper around a call of
\* process_transaction_created.
RECURSIVE ProcessTransactionSettled(_, _, _, _, _, _)
ProcessTransactionSettled(d, ev, up, n, now, m) ==
    The({IF a.out.kind # "return" /\ LoopGuard(m) /\ Caught(a.out.kind, WebhookExceptions)
         THEN Retried(a, ProcessTransactionSettled(a.db, ev, up, a.fetches, now, m - 1))
         ELSE a :
           a \in {ProcessTransactionCreated(d, ev, up, n, now, WebhookTries)}})

\* process_transaction_deleted: its body, and the body under the wrapper.
DeletedBody(d, ev, n) ==
    IF ev.null_relationships THEN Handled(d, Exc("AttributeError", {}, {}), n, 0, <<>>)
    ELSE IF ResolveFailure(d, ev) # "" THEN Handled(d, Dict(FALSE, ResolveFailure(d, ev)), n, 0, <<>>)
    ELSE The({IF r.out.kind # "return" THEN Handled(r.db, r.out, n, 0, <<>>)
              ELSE Handled(r.db, Dict(TRUE, r.out.value), n, 0, <<>>) :
                r \in {ProcessTransactionDeleted(d, The(ev.transaction))}})

RECURSIVE ProcessTransactionDeletedEvent(_, _, _, _)
ProcessTransactionDeletedEvent(d, ev, n, m) ==
    The({IF a.out.kind # "return" /\ LoopGuard(m) /\ Caught(a.out.kind, WebhookExceptions)
         THEN Retried(a, ProcessTransactionDeletedEvent(a.db, ev, n, m - 1))
         ELSE a :
           a \in {DeletedBody(d, ev, n)}})

\* `if not event_type:` in process_webhook.
EventTypeNeverMissing(ev) == FALSE
EventTypeMissing(ev) == ev.event_type \in {{}, {""}}

\* process_webhook(data): the dispatch on the event type; an exception of a
\* handler becomes a failure result.
ProcessWebhook(d, ev, up, now) ==
    IF EventTypeMissing(ev)
    THEN Handled(d, Dict(FALSE, "Invalid webhook payload: missing eventType"), 0, 0, <<>>)
    ELSE The({IF r.out.kind = "return" THEN r
              ELSE [r EXCEPT !.out = Dict(FALSE, "Webhook Processing error")] :
                r \in {IF ev.event_type = {"TRANSACTION_CREATED"}
                       THEN ProcessTransactionCreated(d, ev, up, 0, now, WebhookTries)
                       ELSE IF ev.event_type = {"TRANSACTION_SETTLED"}
                       THEN ProcessTransactionSettled(d, ev, up, 0, now, WebhookTries)
                       ELSE IF ev.event_type = {"TRANSACTION_DELETED"}
                       THEN ProcessTransactionDeletedEvent(d, ev, 0, WebhookTries)
                       ELSE Handled(d, Dict(TRUE, "Ignoring unsupported event type"), 0, 0, <<>>)}})

\* The route of the endpoint (routes/api.py, and the same in
\* routes/upbank.py): 401 without a valid signature when a secret is
\* configured, else process_webhook and 200 or 500.
Answered(status, invoked, r) ==
    [status |-> status, invoked |-> invoked, db |-> r.db, out |-> r.out,
     fetches |-> r.fetches, sleeps |-> r.sleeps, branches |-> r.branches]

WebhookRoute(d, webhook_secret, ev, signature, up, now) ==
    IF webhook_secret \notin {{}, {""}} /\ signature \in {{}, {Text("empty")}}
    THEN Answered(401, FALSE, Handled(d, Dict(FALSE, "Webhook signature missing"), 0, 0, <<>>))
    ELSE IF webhook_secret \notin {{}, {""}} /\ ~VerifyWebhookSignature(ev, signature, webhook_secret)
    THEN Answered(401, FALSE, Handled(d, Dict(FALSE, "Invalid webhook signature"), 0, 0, <<>>))
    ELSE The({Answered(IF r.out.success THEN 200 ELSE 500, TRUE, r) :
                r \in {ProcessWebhook(d, ev, up, now)}})

----------------------------------------------------------------------------
(* Deliveries to the endpoint of one user's ledger                         *)

MaxDeliveries == 3

EventTypes == {"TRANSACTION_CREATED", "TRANSACTION_SETTLED", "TRANSACTION_DELETED"}

\* The events of the model: each handled type about transaction e1 or no
\* transaction, from the user's account, an unknown account or none; the
\* same with a null "relationships"; a type the code does not know; no type.
Events ==
    {Event({t}, tx, ac, FALSE) :
        t \in EventTypes, tx \in {{}, {"e1"}}, ac \in {{}, {AccountExternalId}, {"A9"}}}
    \cup {Event({t}, {}, {}, TRUE) : t \in EventTypes}
    \cup {Event(t, {"e1"}, {AccountExternalId}, FALSE) : t \in {{}, {"PING"}}}

\* The answers of the upstream to the first fetch of a delivery.
FirstAnswers ==
    {Answer(Resp(200, "absent", TRUE), {UpstreamTransaction({})}),
     Answer(Resp(200, "absent", TRUE), {})}
    \cup {Answer(r, {}) : r \in {Resp(401, "absent", TRUE), Resp(403, "absent", FALSE),
                                Resp(404, "absent", TRUE), Resp(429, "absent", TRUE),
                                Resp(503, "absent", TRUE),
                                Fail("ConnectionError"), Fail("Timeout")}}

\* Whether the handler of ev gets as far as the fetch.
Fetches(d, ev) ==
    /\ ev.event_type \in {{"TRANSACTION_CREATED"}, {"TRANSACTION_SETTLED"}}
    /\ ~ev.null_relationships
    /\ ResolveFailure(d, ev) = ""

\* What a sender who holds `key` signs the body with.
Signed(key, ev) == {[kind |-> "digest", key |-> key, msg |-> ev]}

Delivery(ev, signature, up) == [event |-> ev, signature |-> signature, upstream |-> up]

\* The deliveries to a server configured with webhook_secret: every event
\* from the bank (signed with the secret when there is one), with every
\* first answer when the handler fetches; and one event with every other
\* signature header.
Deliveries(d, webhook_secret) ==
    {Delivery(ev,
              IF webhook_secret \in {{}, {""}} THEN {} ELSE Signed(The(webhook_secret), ev),
              up) :
        ev \in Events, up \in {<<>>} \cup {<<a>> : a \in FirstAnswers}}
    \cup
    {Delivery(Event({"TRANSACTION_CREATED"}, {"e1"}, {AccountExternalId}, FALSE), sg, <<>>) :
           sg \in {{}, {Text("empty")}, {Text("ascii")}, {Text("nonascii")},
                   Signed("s2", Event({"TRANSACTION_CREATED"}, {"e1"}, {AccountExternalId}, FALSE)),
                   Signed("s1", Event({"TRANSACTION_DELETED"}, {"e1"}, {AccountExternalId}, FALSE))}}

\* One request to the endpoint.
WebhookDelivery ==
    /\ ops < MaxDeliveries
    /\ \E dl \in {x \in Deliveries(db, rcfg.webhook_secret) :
                     x.upstream # <<>> => Fetches(db, x.event)} :
       \E r \in {WebhookRoute(db, rcfg.webhook_secret, dl.event, dl.signature, dl.upstream, today)} :
         /\ hist' = Record(hist, [op |-> "delivery", delivery |-> dl,
                                  answer |-> [r EXCEPT !.db = {}],
                                  pre |-> db, post |-> r.db])
         /\ db' = r.db
         /\ requests' = requests + r.fetches
         /\ ops' = ops + 1
    /\ UNCHANGED <<rcfg, script, mtries, mdelay, rpc, calls, sleeps, result, seen, today, scn, procs>>

InitWebhook ==
    /\ rcfg \in {[webhook_secret |-> s] : s \in {{}, {""}, {"s1"}}}
    /\ script = <<>> /\ mtries = 0 /\ mdelay = 0 /\ rpc = "idle" /\ calls = 0
    /\ sleeps = <<>> /\ result = <<>> /\ requests = 0 /\ seen = <<>>
    /\ ProcsIdle
    /\ db = EmptyDb(InitialBalance)
    /\ today = Today0 /\ ops = 0 /\ hist = <<>> /\ scn = "webhook"

NextWebhook == WebhookDelivery

SpecWebhook == InitWebhook /\ [][NextWebhook]_vars

----------------------------------------------------------------------------
(* verify_webhook_signature applied to arguments of every kind             *)

VerifyBodies ==
    {Event({t}, {"e1"}, {AccountExternalId}, FALSE) : t \in EventTypes}

VerifyArguments ==
    [request_data : VerifyBodies,
     signature : {{}, {Text("empty")}, {Text("ascii")}, {Text("nonascii")}}
                 \cup {Signed(k, b) : k \in {"", "s1", "s2"}, b \in VerifyBodies},
     webhook_secret : {{}, {""}, {"s1"}, {"s2"}}]

VerifyCall ==
    /\ result = <<>>
    /\ result' = <<VerifyWebhookSignature(script.request_data, script.signature,
                                          script.webhook_secret)>>
    /\ UNCHANGED <<rcfg, script, mtries, mdelay, rpc, calls, sleeps, requests, seen, dbVars, procs>>

InitVerify ==
    /\ script \in VerifyArguments
    /\ rcfg = <<>> /\ mtries = 0 /\ mdelay = 0 /\ rpc = "idle" /\ calls = 0
    /\ sleeps = <<>> /\ result = <<>> /\ requests = 0 /\ seen = <<>>
    /\ DbIdle /\ ProcsIdle

NextVerify == VerifyCall

SpecVerify == InitVerify /\ [][NextVerify]_vars

----------------------------------------------------------------------------
(* Claims about the webhook endpoint                                       *)

Delivered == scn = "webhook" /\ hist # <<>>

SecretConfigured == rcfg.webhook_secret \notin {{}, {""}}

\* The signature of the delivery is the keyed hash of its body under the
\* configured secret.
Genuine(dl) ==
    \E s \in rcfg.webhook_secret :
        dl.signature = {[kind |-> "digest", key |-> s, msg |-> dl.event]}

\* An event of the given types that names transaction e1 and the user's
\* account, handed to process_webhook.
Resolvable(e, types) ==
    /\ e.answer.invoked
    /\ \E t \in types : e.delivery.event.event_type = {t}
    /\ ~e.delivery.event.null_relationships
    /\ e.delivery.event.transaction = {"e1"}
    /\ e.delivery.event.account = {AccountExternalId}

\* C15: with a secret configured, a request whose signature is missing or is
\* not the keyed hash of its body under the secret is answered 401, without
\* process_webhook being invoked and without any change of the datastore; a
\* request is processed only when its signature is genuine or no secret is
\* configured.
C15_UnverifiedRejected ==
    Delivered =>
    /\ (SecretConfigured /\ ~Genuine(Last.delivery))
          => Last.answer.status = 401 /\ ~Last.answer.invoked /\ Last.post = Last.pre
    /\ Last.answer.invoked => (~SecretConfigured \/ Genuine(Last.delivery))

\* A request signed with another secret, refused by a server whose ledger
\* holds a row.
C15_Witness ==
    /\ Delivered /\ SecretConfigured
    /\ \E b \in VerifyBodies : Last.delivery.signature = Signed("s2", b)
    /\ Last.answer.status = 401
    /\ Last.pre.txs # {}

\* C16: verify_webhook_signature returns True exactly when the secret and
\* the signature are both present (not None, not empty) and the signature
\* is the keyed hash of the body under the secret; in every other case it
\* returns False.
C16_VerifyExact ==
    result # <<>> =>
        result[1] = (/\ script.webhook_secret \notin {{}, {""}}
                     /\ \E s \in script.webhook_secret :
                          script.signature =
                             {[kind |-> "digest", key |-> s, msg |-> script.request_data]})

C16_Witness == result = <<TRUE>> /\ script.webhook_secret = {"s2"}

C18_UnknownEventIgnored ==
    \A n \in 1..Len(hist) :
        (scn = "webhook" /\ hist[n].answer.invoked) =>
        /\ hist[n].delivery.event.event_type \notin ({{}, {""}} \cup {{t} : t \in EventTypes})
              => /\ hist[n].answer.out.success
                 /\ hist[n].post = hist[n].pre
                 /\ hist[n].answer.fetches = 0
        /\ hist[n].delivery.event.event_type = {}
              => /\ ~hist[n].answer.out.success
                 /\ hist[n].post = hist[n].pre
                 /\ hist[n].answer.fetches = 0

\* An unknown type and then no type, delivered to a ledger that holds a row.
C18_Witness ==
    /\ Delivered /\ Len(hist) = 2
    /\ hist[1].answer.invoked /\ hist[1].delivery.event.event_type = {"PING"}
    /\ hist[2].answer.invoked /\ hist[2].delivery.event.event_type = {}
    /\ hist[1].pre.txs # {}

RetryableAnswers ==
    {Answer(r, {}) : r \in {Fail("ConnectionError"), Fail("Timeout"), Resp(429, "absent", TRUE)}}

\* C19: for a transaction-created or transaction-settled event whose first
\* fetch of the transaction meets a connection error, a timeout or a rate
\* limit, and whose next fetch would succeed, the fetch is made again, the
\* transaction is reconciled and the event returns success.
C19_FetchRetried ==
    (/\ Delivered
     /\ Resolvable(Last, {"TRANSACTION_CREATED", "TRANSACTION_SETTLED"})
     /\ \E a \in RetryableAnswers : Last.delivery.upstream = <<a>>)
    => /\ Last.answer.fetches >= 2
       /\ Last.answer.out.success
       /\ Stored(Last.post, "e1") # {}

NonRetryableAnswers ==
    {Answer(r, {}) : r \in {Resp(401, "absent", TRUE), Resp(403, "absent", FALSE),
                            Resp(404, "absent", TRUE)}}

\* C20: for a transaction-created or transaction-settled event whose fetch
\* of the transaction is refused by the upstream (401, 403) or finds nothing
\* (404), the result is a failure after exactly one fetch, with no sleep of
\* a retry wrapper and no reconciliation.
C20_AuthFailureNotRetried ==
    (/\ Delivered
     /\ Resolvable(Last, {"TRANSACTION_CREATED", "TRANSACTION_SETTLED"})
     /\ \E a \in NonRetryableAnswers : Last.delivery.upstream = <<a>>)
    => /\ ~Last.answer.out.success
       /\ Last.answer.fetches = 1
       /\ Last.answer.sleeps = 0
       /\ Last.answer.branches = <<>>
       /\ Last.post = Last.pre

C20_Witness ==
    /\ Delivered
    /\ Resolvable(Last, {"TRANSACTION_SETTLED"})
    /\ Last.delivery.upstream = <<Answer(Resp(401, "absent", TRUE), {})>>
    /\ Last.answer.status = 500
    /\ Last.answer.fetches = 1

----------------------------------------------------------------------------
----------------------------------------------------------------------------
(* Records with and without a creation timestamp, through both paths       *)

InitTimestamp ==
    /\ RetryIdle
    /\ ProcsIdle
    /\ db = EmptyDb(InitialBalance)
    /\ today = Today0
    /\ ops = 0
    /\ hist = <<>>
    /\ scn = "timestamp"

NextTimestamp == WebhookReconcile \/ SyncRun \/ Tick

SpecTimestamp == InitTimestamp /\ [][NextTimestamp]_vars

\* C21: a remote record that has an external id and no createdAt is
\* reconciled all the same, by the sync path and by the webhook path: the
\* operation reports it created or updated, and the row of its external id
\* is stored with the current date.
C21_MissingTimestampDefaultsToNow ==
    (/\ scn = "timestamp" /\ hist # <<>>
     /\ Last.op \in {"sync", "webhook"}
     /\ Last.payload.id # ""
     /\ Last.payload.createdAt.state = "missing")
    => /\ Last.out \in {Ret("created"), Ret("updated"), Ret("True")}
       /\ \E t \in Stored(Last.post, Last.payload.id) : t.date = Last.now


----------------------------------------------------------------------------
(* Aggregates after webhook reconciliation                                 *)

\* Every stored summary equals the aggregate of the rows now in its week.
SummariesMatch(d) ==
    \A s \in d.summaries :
        s = Summarize(WeekRows(d, s.week_start_date), s.week_start_date)

\* C23: after a completed webhook create or update, every weekly summary
\* equals the aggregate recomputed from the rows stored in its week, the
\* summary of the week a row was moved out of included (summaries that
\* matched before the operation match after it).
C23_SummariesRecomputed ==
    (/\ hist # <<>>
     /\ Last.op = "webhook"
     /\ Last.out = Ret("True")
     /\ SummariesMatch(Last.pre))
    => SummariesMatch(Last.post)


\* The amounts of the rows linked to an account, summed.
LinkedAmounts(d, account_id) ==
    SumAmounts(ById({t \in d.txs : t.account_id = account_id}))

\* balance = starting balance + the linked amounts.
BalanceMatches(d, account_id) ==
    Balance(d, account_id) = InitialBalance + LinkedAmounts(d, account_id)

\* C24: over webhook creates, settles and deletes in which no attempt
\* fails (the handler returns at its first attempt), the
\* account's balance stays equal to its starting balance plus the amounts
\* of the rows linked to it (a balance that matched before such an
\* operation matches after it).
C24_BalanceTracksLinkedRows ==
    (/\ hist # <<>>
     /\ Last.op \in {"webhook", "webhook_delete"}
     /\ Last.out.kind = "return"
     /\ Len(Last.branches) <= 1
     /\ BalanceMatches(Last.pre, AccountId))
    => BalanceMatches(Last.post, AccountId)


\* C26: when the create handler returns success for a record linked to an
\* account, the account's balance has moved by the record's amount and the
\* summary of the row's week matches its rows, runs whose first attempt
\* failed after the row's commit and was repeated by @retry included.
C26_SuccessReflectsEvent ==
    (/\ hist # <<>>
     /\ Last.op = "webhook"
     /\ Last.out = Ret("True")
     /\ Head(Last.branches) = "create"
     /\ PayloadAccountId(Last.pre, Last.payload) # NoId)
    => \E t \in Stored(Last.post, Last.payload.id) :
          /\ Balance(Last.post, t.account_id) = Balance(Last.pre, t.account_id) + t.amount
          /\ Summarize(WeekRows(Last.post, WeekStart(t.date)), WeekStart(t.date))
                \in Last.post.summaries


----------------------------------------------------------------------------
(* Webhook handlers whose primary commit may fail                          *)

\* db.session.rollback(): the pending changes of the unit of work are
\* dropped, the datastore is as last committed.
RollbackKeepsPending(committed, session) == session
Rollback(committed, session) == committed

\* One execution of a handler body: the datastore before and after, the
\* branch, the outcome, and whether the primary commit was refused.
Tried(pre, a, commit_failed) ==
    [pre |-> pre, post |-> a.db, out |-> a.out, branch |-> a.branch,
     commit_failed |-> commit_failed]

\* What suggest_category_for_transaction committed on its own before the
\* primary commit: a keyword category met for the first time, and with it
\* the pending field changes of an existing row.
CommittedBeforePrimary(d, p, now) ==
    LET account_id == PayloadAccountId(d, p)
        existing == TxByExternalId(d, p.id)
    IN IF existing = {} THEN SuggestCategory(d, MapDescription(p)).db
       ELSE \* the update branch consults the heuristic for a bare row only
            LET t0 == First(existing)
                t1 == Merge(t0, p, now, account_id)
                s  == SuggestCategory(ReplaceTx(d, t0, t1), t1.description)
            IN IF t1.category_id = NoId /\ s.db.categories # d.categories THEN s.db ELSE d

\* The body of process_up_bank_transaction when db.session.commit() of the
\* row's write (webhooks.py:386, 421) succeeds or raises: the inner except
\* rolls back and re-raises.
ReconcileBody(d, p, now, commit_ok) ==
    IF commit_ok \/ p.id = "" \/ p.createdAt.state = "missing"
    THEN Tried(d, WebhookAttempt(d, p, now), FALSE)
    ELSE LET a == WebhookAttempt(d, p, now) IN
         Tried(d, Attempt(Rollback(CommittedBeforePrimary(d, p, now), a.db),
                          Exc("IntegrityError", {}, {}),
                          IF TxByExternalId(d, p.id) = {} THEN "create" ELSE "update",
                          a.consulted),
               TRUE)

\* The body of process_transaction_deleted for a known user: the balance
\* is reverted in the session, the row deleted, both committed at once.
DeleteBody(d, ext, commit_ok) ==
    LET found == TxByExternalId(d, ext) IN
    IF found = {}
    THEN Tried(d, Attempt(d, Ret("already deleted"), "absent", FALSE), FALSE)
    ELSE IF commit_ok
    THEN Tried(d, Attempt(DeleteRow(d, First(found)), Ret("deleted"), "delete", FALSE), FALSE)
    ELSE Tried(d, Attempt(Rollback(d, DeleteRow(d, First(found))),
                          Exc("IntegrityError", {}, {}), "delete", FALSE),
               TRUE)

\* @retry(exceptions=[Exception], tries=3) around either body; commits[i]
\* tells whether the primary commit of the i-th execution succeeds.
RECURSIVE ReconcileWithCommits(_, _, _, _, _)
ReconcileWithCommits(d, p, now, m, commits) ==
    \* the executions made, in order
    LET a == ReconcileBody(d, p, now, Head(commits)) IN
    IF a.out.kind # "return" /\ LoopGuard(m) /\ Caught(a.out.kind, WebhookExceptions)
    THEN <<a>> \o ReconcileWithCommits(a.post, p, now, m - 1, Tail(commits))
    ELSE <<a>>

RECURSIVE DeleteWithCommits(_, _, _, _)
DeleteWithCommits(d, ext, m, commits) ==
    LET a == DeleteBody(d, ext, Head(commits)) IN
    IF a.out.kind # "return" /\ LoopGuard(m) /\ Caught(a.out.kind, WebhookExceptions)
    THEN <<a>> \o DeleteWithCommits(a.post, ext, m - 1, Tail(commits))
    ELSE <<a>>

CommitScripts == [1..WebhookTries -> BOOLEAN]

Handler(op, p, attempts) ==
    /\ hist' = Record(hist, [op |-> op, payload |-> p, attempts |-> attempts,
                             out |-> attempts[Len(attempts)].out,
                             pre |-> db, post |-> attempts[Len(attempts)].post])
    /\ db' = attempts[Len(attempts)].post
    /\ ops' = ops + 1
    /\ UNCHANGED <<today, scn, retryVars, procs>>

\* A created or settled delivery reaching process_up_bank_transaction.
ReconcileDelivery ==
    /\ ops < MaxOps
    /\ \E p \in Payloads("timestamp"), commits \in CommitScripts :
         \E r \in {ReconcileWithCommits(db, p, today, WebhookTries, commits)} :
            Handler("reconcile", p, r)

\* A TRANSACTION_DELETED delivery.
DeleteDelivery ==
    /\ ops < MaxOps
    /\ \E commits \in CommitScripts :
         \E r \in {DeleteWithCommits(db, "e1", WebhookTries, commits)} :
            Handler("delete", NoPayload, r)

InitCommit ==
    /\ RetryIdle
    /\ ProcsIdle
    /\ db = EmptyDb(InitialBalance)
    /\ today = Today0
    /\ ops = 0
    /\ hist = <<>>
    /\ scn = "commit"

NextCommit == ReconcileDelivery \/ DeleteDelivery

SpecCommit == InitCommit /\ [][NextCommit]_vars

\* The tables the handlers derive from the transactions.
Aggregates(d) == [accounts |-> d.accounts, summaries |-> d.summaries]

----------------------------------------------------------------------------
(* Pages of a sync run: order, commits, and a failed fetch                 *)

Reconciled(e) == e.out \in {Ret("created"), Ret("updated")}

\* The n-th record of the upstream's chain of pages.
Listed(n) == script.pages[((n - 1) \div PageSize) + 1][((n - 1) % PageSize) + 1]

\* The pages whose commit the run is past.
PagesCommitted == IF procs.pc = "records" THEN Len(seen) - 1
                  ELSE Cardinality({n \in 1..Len(seen) : seen[n].out.kind = "return"})

\* C27: a sync run processes the records in the order the pages list them
\* and the pages in cursor order; whenever a fetch is about to be issued the
\* datastore holds everything processed so far; and the reconciled records
\* of the pages already committed stay stored whatever happens while a later
\* page is fetched or processed.
C27_PagesCommittedInOrder ==
    scn = "sync" =>
    /\ \A n \in 1..Len(procs.attempted) : procs.attempted[n].id = Listed(n).id
    /\ \A n \in 1..Len(seen) : seen[n].out.kind = "return" => seen[n].url.page = n
    /\ procs.pc = "fetch" => db = procs.session
    /\ \A n \in 1..Len(procs.attempted) :
          (n <= PagesCommitted * PageSize /\ Reconciled(procs.attempted[n]))
             => Stored(db, procs.attempted[n].id) # {}

\* The run is in its second page, a record of which has just failed, and
\* the records of the first page are stored.
C27_Witness ==
    /\ scn = "sync" /\ procs.pc = "records"
    /\ Len(seen) = 2
    /\ Len(procs.attempted) > PageSize
    /\ procs.attempted[Len(procs.attempted)].out.kind = "AttributeError"
    /\ \A n \in 1..PageSize : Reconciled(procs.attempted[n])
                              /\ Stored(db, procs.attempted[n].id) # {}

\* What the upstream answered to the last request of the run.
LastResponse == UpstreamResponse(script, Len(seen), seen[Len(seen)].url)

NonRetryable(r) == r.transport = "ok" /\ r.status \in {401, 404}

Count(value) ==
    Cardinality({n \in 1..Len(procs.attempted) : procs.attempted[n].out = Ret(value)})

\* C28: when the fetch of page k fails with a non-retryable error (401,
\* 404) the run makes no further request and returns the created and
\* updated counts of the records of pages 1..k-1, all of which are stored.
C28_FailedFetchKeepsCounts ==
    (RunDone /\ procs.fetch_error # {} /\ NonRetryable(LastResponse))
    => /\ requests = Len(seen)
       /\ \A n \in 1..(Len(seen) - 1) : seen[n].out.kind = "return"
       /\ Len(procs.attempted) = (Len(seen) - 1) * PageSize
       /\ procs.outcome.created = Count("created")
       /\ procs.outcome.updated = Count("updated")
       /\ procs.outcome.created + procs.outcome.updated = (Len(seen) - 1) * PageSize
       /\ \A n \in 1..Len(procs.attempted) : Stored(db, procs.attempted[n].id) # {}

\* The fetch of the third page is answered 401 after two pages of created
\* records.
C28_Witness ==
    /\ RunDone /\ procs.fetch_error # {}
    /\ Len(seen) = 3
    /\ LastResponse = Resp(401, "absent", TRUE)
    /\ procs.outcome.created = 2 * PageSize


\* C30: after a service-level sync that created or updated a transaction,
\* the week of every transaction the run reconciled has a summary equal to
\* the aggregate of the rows stored in that week, the week that contains
\* the since-date included.
C30_ReconciledWeeksSummarized ==
    (RunDone /\ (procs.outcome.created > 0 \/ procs.outcome.updated > 0))
    => \A n \in 1..Len(procs.attempted) :
          Reconciled(procs.attempted[n]) =>
             \A t \in Stored(db, procs.attempted[n].id) :
                Summarize(WeekRows(db, WeekStart(t.date)), WeekStart(t.date)) \in db.summaries


----------------------------------------------------------------------------
(* The sync route: the accounts, then the transactions                     *)

MaxAccounts == 3

AccountExternalIds == <<"A1", "A2", "A3", "A4", "A5">>

\* An element of the accounts list: its id ("" for none), whether its
\* "attributes" member is null, and attributes.balance.value in cents.
AccountData(n, shape) ==
    [id |-> IF shape = "noid" THEN "" ELSE AccountExternalIds[n],
     null_attributes |-> (shape = "null"),
     balance |-> 5000 + (100 * n)]

AccountLists ==
    {[n \in 1..k |-> AccountData(n, sh[n])] :
        k \in 0..MaxAccounts, sh \in [1..MaxAccounts -> {"ok", "null", "noid"}]}

\* What the upstream answers to GET accounts: a list, or a failure.
AccountAnswers ==
    {Answer(Resp(200, "absent", TRUE), l) : l \in AccountLists}
    \cup {Answer(f, <<AccountData(1, "ok")>>) : f \in SyncFaults}

\* The except clause of get_accounts: log, return [].
AccountsExceptReraises(o) == [raised |-> {o}, value |-> <<>>]
AccountsExcept(o) == [raised |-> {}, value |-> <<>>]

\* The body of get_accounts: response.get('data', []) of the request, or
\* what the except clause returns.
GetAccountsBody(answer) ==
    The({IF o.kind = "return" THEN [raised |-> {}, value |-> answer.data]
         ELSE AccountsExcept(o) : o \in {MakeRequest(answer.resp)}})

\* get_accounts through @retry(exceptions=[ConnectionError, Timeout,
\* UpBankConnectionError, UpBankRateLimitError], tries=MAX_RETRIES): the
\* result and the number of requests made.
RECURSIVE GetAccounts(_, _)
GetAccounts(answer, m) ==
    The({IF a.raised # {} /\ LoopGuard(m)
            /\ Caught((CHOOSE o \in a.raised : TRUE).kind, ApiExceptions)
         THEN The({[r EXCEPT !.requests = @ + 1] : r \in {GetAccounts(answer, m - 1)}})
         ELSE [raised |-> a.raised, value |-> a.value, requests |-> 1] :
            a \in {GetAccountsBody(answer)}})

\* The except clause of process_account: log, return None.
OnAccountErrorRaises(d, o) == [db |-> d, out |-> Ret("None"), raised |-> {o}]
OnAccountError(d, o) == [db |-> d, out |-> Ret("None"), raised |-> {}]

NextAccountId(d) ==
    1 + (CHOOSE m \in {a.id : a \in d.accounts} \cup {0} :
            \A a \in d.accounts : a.id <= m)

\* process_account: a missing id returns None; attributes.get on a null
\* "attributes" raises inside the try; an account of that external id is
\* updated and committed, otherwise one is created and committed.
ProcessAccount(d, a) ==
    IF a.id = "" THEN [db |-> d, out |-> Ret("None"), raised |-> {}]
    ELSE IF a.null_attributes THEN OnAccountError(d, Exc("AttributeError", {}, {}))
    ELSE IF AccountByExternalId(d, a.id) # NoId
    THEN [db |-> SetBalance(d, AccountByExternalId(d, a.id), a.balance),
          out |-> Ret("updated"), raised |-> {}]
    ELSE [db |-> [d EXCEPT !.accounts = @ \cup
                    {[id |-> NextAccountId(d), external_id |-> a.id, balance |-> a.balance]}],
          out |-> Ret("created"), raised |-> {}]

\* `for account_data in accounts_data`, with the counts; an exception ends
\* the loop.
RECURSIVE ProcessAccounts(_, _, _)
ProcessAccounts(d, list, acc) ==
    IF list = <<>> THEN [acc EXCEPT !.db = d]
    ELSE The({IF r.raised # {} THEN [acc EXCEPT !.db = r.db, !.raised = r.raised]
              ELSE ProcessAccounts(r.db, Tail(list),
                      [acc EXCEPT !.created = @ + (IF r.out = Ret("created") THEN 1 ELSE 0),
                                  !.updated = @ + (IF r.out = Ret("updated") THEN 1 ELSE 0),
                                  !.outs = Append(@, r.out)]) :
                 r \in {ProcessAccount(d, Head(list))}})

\* sync_accounts for a user with a token: the tuple it returns, and the
\* datastore.
SyncAccounts(d, got) ==
    IF got.raised # {} THEN [db |-> d, success |-> FALSE, message |-> "Error", count |-> 0, outs |-> <<>>]
    ELSE IF got.value = <<>>
    THEN [db |-> d, success |-> FALSE, message |-> "No accounts retrieved from Up Bank",
          count |-> 0, outs |-> <<>>]
    ELSE The({IF r.raised # {}
              THEN [db |-> r.db, success |-> FALSE, message |-> "Error", count |-> 0, outs |-> r.outs]
              ELSE [db |-> r.db, success |-> TRUE, message |-> "Synced",
                    count |-> r.created + r.updated, outs |-> r.outs] :
                 r \in {ProcessAccounts(d, got.value,
                          [db |-> d, created |-> 0, updated |-> 0, outs |-> <<>>, raised |-> {}])}})

\* The first half of the sync route: sync_accounts, and on failure the
\* flash message and the redirect.
SyncAccountsStep ==
    /\ procs.pc = "accounts"
    /\ \E got \in {GetAccounts(rcfg, MAX_RETRIES)} :
       \E r \in {SyncAccounts(db, got)} :
         /\ hist' = <<[op |-> "accounts", answer |-> rcfg, got |-> got, result |-> r,
                       pre |-> db, post |-> r.db]>>
         /\ db' = r.db
         /\ procs' = IF r.success THEN NewRun(r.db)
                     ELSE [NewRun(r.db) EXCEPT !.pc = "done",
                              !.outcome = [NoOutcome EXCEPT !.message = "Failed to sync accounts"]]
    /\ UNCHANGED <<rcfg, script, mtries, mdelay, rpc, calls, sleeps, result, requests, seen,
                   today, ops, scn>>

\* The upstreams of the transactions half: one or two pages, relative
\* links, no failed request, the records 2, 5 and 6 well formed or null.
RouteUpstreams ==
    {Upstream(k, "relative",
              [n \in 1..(MaxPages * PageSize) |-> IF n \in nulls THEN "null" ELSE "ok"], NoFault) :
        k \in 1..2, nulls \in SUBSET {2, 5, 6}}

InitRoute ==
    /\ mtries = 0 /\ mdelay = 0 /\ rpc = "idle" /\ calls = 0
    /\ sleeps = <<>> /\ result = <<>>
    /\ requests = 0 /\ seen = <<>>
    /\ rcfg \in AccountAnswers
    /\ script \in RouteUpstreams
    /\ db = EmptyDb(InitialBalance)
    /\ procs = [NewRun(db) EXCEPT !.pc = "accounts"]
    /\ today = Today0 /\ ops = 0 /\ scn = "route"
    /\ hist = <<>>

NextRoute == SyncAccountsStep \/ SyncFetch \/ SyncRecord \/ SyncCommit \/ SyncReturn

SpecRoute == InitRoute /\ [][NextRoute]_vars

\* C22: get_accounts never raises: whatever the request does (auth, rate
\* limit, connection, malformed body, server error) it returns the empty
\* list after the one request, and for a good answer the answer's data.
C22_GetAccountsNeverRaises ==
    (scn = "route" /\ hist # <<>>) =>
        /\ hist[1].got.raised = {}
        /\ hist[1].got.requests = 1
        /\ hist[1].got.value =
              IF hist[1].answer.resp = Resp(200, "absent", TRUE) THEN hist[1].answer.data
              ELSE <<>>

\* The request is refused with 401 and the route stops at the accounts.
C22_Witness ==
    /\ scn = "route" /\ hist # <<>>
    /\ hist[1].answer.resp = Resp(401, "absent", TRUE)
    /\ hist[1].answer.data # <<>>
    /\ hist[1].got.value = <<>>
    /\ hist[1].result.message = "No accounts retrieved from Up Bank"
    /\ procs.pc = "done"


\* The records the upstream lists over all its pages, by position.
ListedAll == 1..(Len(script.pages) * PageSize)
WellFormed(n) == ~ Listed(n).null_attributes

AccountOk(a) == a.id # "" /\ ~ a.null_attributes

----------------------------------------------------------------------------
(* The three retry wrappers around one reconciliation                      *)

\* The datastore refuses the primary commit of the first `refused`
\* executions of the body of process_up_bank_transaction of a delivery.
MaxRefused == 30

\* What a wrapped call has done: the datastore, the result, and the number
\* of executions of the reconciliation body so far.
Ran(d, out, runs) == [db |-> d, out |-> out, runs |-> runs]

\* process_up_bank_transaction under its @retry(exceptions=[Exception],
\* tries=3), `runs` executions of the body having been made before.
RECURSIVE ReconcileTries(_, _, _, _, _, _)
ReconcileTries(d, p, now, m, runs, refused) ==
    The({IF a.out.kind # "return" /\ LoopGuard(m) /\ Caught(a.out.kind, WebhookExceptions)
         THEN ReconcileTries(a.post, p, now, m - 1, runs + 1, refused)
         ELSE Ran(a.post, a.out, runs + 1) :
           a \in {ReconcileBody(d, p, now, runs >= refused)}})

\* process_transaction_created for an event whose user resolves and whose
\* transaction the upstream returns: the call of
\* process_up_bank_transaction, the result dict, the except clauses; under
\* its own @retry(exceptions=[Exception], tries=3).
RECURSIVE CreatedTries(_, _, _, _, _, _)
CreatedTries(d, p, now, m, runs, refused) ==
    The({IF r.out.kind = "return"
         THEN Ran(r.db, IF r.out.value = "True" THEN Dict(TRUE, "Transaction created")
                        ELSE Dict(FALSE, "Failed to process transaction"), r.runs)
         ELSE The({IF o.kind # "return" /\ LoopGuard(m) /\ Caught(o.kind, WebhookExceptions)
                   THEN CreatedTries(r.db, p, now, m - 1, r.runs, refused)
                   ELSE Ran(r.db, o, r.runs) :
                     o \in {CreatedExcept(r.out)}}) :
           r \in {ReconcileTries(d, p, now, WebhookTries, runs, refused)}})

\* process_transaction_settled: `return process_transaction_created(data,
\* user_id)` under a third @retry(exceptions=[Exception], tries=3).
RECURSIVE SettledTries(_, _, _, _, _, _)
SettledTries(d, p, now, m, runs, refused) ==
    The({IF r.out.kind # "return" /\ LoopGuard(m) /\ Caught(r.out.kind, WebhookExceptions)
         THEN SettledTries(r.db, p, now, m - 1, r.runs, refused)
         ELSE r :
           r \in {CreatedTries(d, p, now, WebhookTries, runs, refused)}})

\* process_webhook: the dispatch; an exception of the handler becomes a
\* failure result.
Dispatch(d, event_type, p, now, refused) ==
    The({IF r.out.kind = "return" THEN r
         ELSE [r EXCEPT !.out = Dict(FALSE, "Webhook Processing error")] :
           r \in {IF event_type = "TRANSACTION_CREATED"
                  THEN CreatedTries(d, p, now, WebhookTries, 0, refused)
                  ELSE SettledTries(d, p, now, WebhookTries, 0, refused)}})

NestedInputs ==
    [event_type : {"TRANSACTION_CREATED", "TRANSACTION_SETTLED"},
     payload : {UpstreamTransaction({}), UpstreamTransaction({AccountExternalId})},
     refused : 0..MaxRefused]

NestedDelivery ==
    /\ result = <<>>
    /\ \E r \in {Dispatch(db, script.event_type, script.payload, today, script.refused)} :
         /\ result' = <<[out |-> r.out, runs |-> r.runs]>>
         /\ db' = r.db
    /\ UNCHANGED <<rcfg, script, mtries, mdelay, rpc, calls, sleeps, requests, seen,
                   today, ops, hist, scn, procs>>

InitNested ==
    /\ script \in NestedInputs
    /\ rcfg = <<>> /\ mtries = 0 /\ mdelay = 0 /\ rpc = "idle" /\ calls = 0
    /\ sleeps = <<>> /\ result = <<>> /\ requests = 0 /\ seen = <<>>
    /\ ProcsIdle
    /\ db = EmptyDb(InitialBalance)
    /\ today = Today0 /\ ops = 0 /\ hist = <<>> /\ scn = "nested"

NextNested == NestedDelivery

SpecNested == InitNested /\ [][NextNested]_vars

\* C31: one created or settled delivery whose reconciliation keeps failing
\* executes the reconciliation body at most 3 times before the failure
\* result is returned.
C31_AtMostThreeReconciliations ==
    (scn = "nested" /\ result # <<>>) => result[1].runs <= WebhookTries

\* Each wrapper by itself gives up after three executions: with every
\* commit refused the created handler runs the body 3 * 3 times and the
\* settled handler 3 * 3 * 3 times.
C31_AttemptsMultiply ==
    (scn = "nested" /\ result # <<>> /\ script.refused >= WebhookTries * WebhookTries * WebhookTries)
    => /\ result[1].out.success = FALSE
       /\ result[1].runs = IF script.event_type = "TRANSACTION_CREATED"
                           THEN WebhookTries * WebhookTries
                           ELSE WebhookTries * WebhookTries * WebhookTries


----------------------------------------------------------------------------
(* The counts of a sync run and the rows it committed                      *)

\* C32: the pair a sync run returns counts only committed writes: the run
\* reports a record as created exactly when the row it added was committed,
\* also when the commit of its page fails.
C32_CountsOnlyCommitted ==
    scn = "race" =>
        \A r \in DOMAIN procs :
            (procs[r].kind = "sync" /\ procs[r].pc = "done")
            => procs[r].created_count = (IF procs[r].inserted THEN 1 ELSE 0)


----------------------------------------------------------------------------
(* Termination of a sync run                                               *)

\* The run is one sequential call: it takes its next step as long as it
\* has one.
LiveUpstreams ==
    {Upstream(k, "relative",
              [n \in 1..(MaxPages * PageSize) |-> IF n \in nulls THEN "null" ELSE "ok"], NoFault) :
        k \in 1..MaxPages, nulls \in {{}, {2}, 1..MaxFailures, 2..(MaxFailures + 2)}}
    \cup
    {Upstream(k, c, [n \in 1..(MaxPages * PageSize) |-> "ok"], f) :
        k \in 1..MaxPages, c \in {"absolute", "relative"},
        f \in {NoFault} \cup [at : 1..MaxPages, times : {1},
                              fault : {Fail("Timeout"), Resp(404, "absent", TRUE)}]}

InitSyncLive ==
    /\ rcfg = <<>> /\ mtries = 0 /\ mdelay = 0 /\ rpc = "idle" /\ calls = 0
    /\ sleeps = <<>> /\ result = <<>>
    /\ requests = 0 /\ seen = <<>>
    /\ script \in LiveUpstreams
    /\ db = EmptyDb(InitialBalance)
    /\ procs = NewRun(db)
    /\ today = Today0 /\ ops = 0 /\ scn = "sync"
    /\ hist = <<[op |-> "start", pre |-> db]>>

\* The step of SyncReturn, told by what it does to the run: it is possible
\* exactly when the page loop has been left.
Returning ==
    /\ procs.pc = "return"
    /\ procs' = [procs EXCEPT !.pc = "done",
                    !.outcome = ServiceOutcome(procs.created_count, procs.updated_count)]

SpecSyncLive ==
    /\ InitSyncLive /\ [][NextSync]_vars
    /\ WF_vars(SyncFetch) /\ WF_vars(SyncRecord) /\ WF_vars(SyncCommit)
    /\ WF_procs(Returning)

\* Why the page loop has been left.
LoopLeft ==
    \/ procs.next = {}
    \/ procs.fetch_error # {}
    \/ CeilingReached(Len(procs.failed_transactions))

----------------------------------------------------------------------------
(* The URL of the request that follows a next link                         *)

\* The URL a next link denotes: an absolute link is the URL, a relative
\* one is joined to the base URL.
LinkUrl(next) ==
    [path |-> IF next.form = "absolute" THEN next.path ELSE BasePath \o next.path,
     page |-> next.page]

\* C34: the request that follows a page is issued to the URL its next link
\* denotes, for an absolute link as for a relative one: the base path is
\* neither duplicated nor lost.
C34_NextRequestAtCursor ==
    scn = "sync" =>
        \A n \in 2..Len(seen) : seen[n].url = LinkUrl(NextLink(script.cursor, n))

\* The same for relative links alone.
C34_RelativeJoined == script.cursor = "relative" => C34_NextRequestAtCursor


----------------------------------------------------------------------------
(* Two reconciliations of one user categorizing at the same time.           *)
(* suggest_category_for_transaction reads the category row in one           *)
(* statement and inserts and commits it in later ones; another request can  *)
(* run between the two.                                                     *)

DescAldi == <<"A","L","D","I">>

Categorizing(description) ==
    [kind |-> "categorize", description |-> description, pc |-> "lookup",
     name |-> "", category_id |-> NoId]

\* The similar-transaction query, the keyword loop and the
\* TransactionCategory query of the matching keyword.
CatLookup(r) ==
    /\ scn = "categories"
    /\ procs[r].pc = "lookup"
    /\ \E desc \in {Lower(procs[r].description)} :
       \E similar \in {SimilarRows(db, desc)},
          name \in {FirstPatternMatch(CategoryPatterns, desc)} :
          procs' = [procs EXCEPT ![r] =
              IF similar # {}
              THEN [@ EXCEPT !.pc = "done",
                             !.category_id = MostRecent(similar).category_id]
              ELSE IF name = "" THEN [@ EXCEPT !.pc = "done"]
              ELSE IF \E c \in db.categories : c.name = name
              THEN [@ EXCEPT !.pc = "done",
                             !.category_id =
                                 (CHOOSE c \in db.categories : c.name = name).id]
              ELSE [@ EXCEPT !.pc = "create", !.name = name]]
    /\ UNCHANGED <<db, today, ops, hist, scn>>
    /\ UNCHANGED retryVars

\* new_category = TransactionCategory(...); add; commit.  No constraint of
\* the table refuses a second row of the same (user, name).
CatCreate(r) ==
    /\ scn = "categories"
    /\ procs[r].pc = "create"
    /\ db' = [db EXCEPT !.categories = @ \cup {[id |-> db.nextCat,
                                                 name |-> procs[r].name]},
                        !.nextCat = @ + 1]
    /\ procs' = [procs EXCEPT ![r] = [@ EXCEPT !.pc = "done",
                                               !.category_id = db.nextCat]]
    /\ UNCHANGED <<today, ops, hist, scn>>
    /\ UNCHANGED retryVars

CategoryDescriptions == {DescColes, DescAldi, DescUber, DescRent}

\* Transactions the user has filed under a category of their own, one with
\* a shorter description than the new records and one with a longer.
DescShort == <<"C","O","L","E","S">>
DescLong == <<"U","b","e","r"," ","T","r","i","p">>

Categorized ==
    {[id |-> 1, description |-> DescShort, category_id |-> 1],
     [id |-> 2, description |-> DescLong, category_id |-> 1]}

InitCategories ==
    /\ RetryIdle
    /\ \E known \in SUBSET {"groceries"}, stored \in SUBSET Categorized :
          db = [EmptyDb(InitialBalance) EXCEPT
                   !.txs = stored,
                   !.categories = {[id |-> 1, name |-> "household"]}
                                  \cup {[id |-> 2, name |-> n] : n \in known},
                   !.nextTx = 3,
                   !.nextCat = 2 + Cardinality(known)]
    /\ today = Today0
    /\ ops = 0
    /\ hist = <<>>
    /\ scn = "categories"
    /\ \E d1 \in CategoryDescriptions, d2 \in CategoryDescriptions :
          procs = <<Categorizing(d1), Categorizing(d2)>>

NextCategories == \E r \in {1, 2} : CatLookup(r) \/ CatCreate(r)

SpecCategories == InitCategories /\ [][NextCategories]_vars

\* C35: after any run of categorizations, two of them concurrent and
\* resolving the same keyword category for the first time included, the
\* user has at most one TransactionCategory row of any name.
C35_OneCategoryPerName ==
    scn = "categories" =>
        \A c1 \in db.categories, c2 \in db.categories :
            c1.name = c2.name => c1 = c2

\* What the code does keep: categorizations that do not overlap (the second
\* looks up after the first has committed) leave one row per name.
C35_SequentialUnique ==
    (scn = "categories" /\ \E r \in {1, 2} : procs[r].pc = "lookup")
        => \A c1 \in db.categories, c2 \in db.categories :
               c1.name = c2.name => c1 = c2


----------------------------------------------------------------------------
(* Account balances and their daily history (bank_service.process_account,  *)
(* record_balance_history, Account.update_balance).  db holds the one       *)
(* account of the user, if any, and the rows of account_balance_history,    *)
(* which carries a unique constraint on (account_id, date).                 *)

LastDay == Today0 + 1

RemoteBalances == {{}, {InitialBalance}, {12550}}

\* float(balance_value), 0.0 when the value does not parse.
BalanceOf(balance_value) ==
    IF balance_value = {} THEN 0 ELSE The(balance_value)

SnapshotsOf(d, date) == {h \in d.history : h.date = date}

\* record_balance_history: overwrite today's row or add one, then commit.
RecordBalanceHistory(d, now, balance) ==
    IF SnapshotsOf(d, now) # {}
    THEN [d EXCEPT !.history =
             {IF h.date = now THEN [h EXCEPT !.balance = balance] ELSE h : h \in @}]
    ELSE [d EXCEPT !.history = @ \cup {[date |-> now, balance |-> balance]}]

\* What `account.balance != balance` reads once account.balance has been
\* assigned: the value just assigned.
AssignedBalance(before, balance) == balance

\* process_account, the existing account and the new one.
BankProcessAccount(d, now, balance_value) ==
    LET balance == BalanceOf(balance_value)
    IN IF d.account # {}
       THEN LET before == The(d.account).balance
                updated == [d EXCEPT !.account = {[balance |-> balance]}]
            IN [db |-> IF AssignedBalance(before, balance) # balance
                       THEN RecordBalanceHistory(updated, now, balance)
                       ELSE updated,
                out |-> "updated"]
       ELSE [db |-> RecordBalanceHistory(
                        [d EXCEPT !.account = {[balance |-> balance]}], now, balance),
             out |-> "created"]

\* Account.update_balance: the history row is added without a lookup, so the
\* commit meets the unique constraint when today already has one; the
\* exception leaves the method and nothing of the call is stored.
UpdateBalance(d, now, new_balance, record_history) ==
    IF record_history /\ SnapshotsOf(d, now) # {}
    THEN [db |-> d, out |-> "IntegrityError"]
    ELSE [db |-> [d EXCEPT
                     !.history = IF record_history
                                 THEN @ \cup {[date |-> now,
                                               balance |-> The(d.account).balance]}
                                 ELSE @,
                     !.account = {[balance |-> new_balance]}],
          out |-> "ok"]

Called(op, d, balance, written, r) ==
    <<[op |-> op, day |-> today, before |-> d, balance |-> balance,
       written |-> written, out |-> r.out]>>

ProcessAccountCall ==
    /\ scn = "history"
    /\ \E v \in RemoteBalances :
       \E r \in {BankProcessAccount(db, today, v)} :
          /\ db' = r.db
          /\ hist' = Called("process_account", db, BalanceOf(v), BalanceOf(v), r)
    /\ UNCHANGED <<today, ops, scn, procs>>
    /\ UNCHANGED retryVars

RecordHistoryCall ==
    /\ scn = "history"
    /\ db.account # {}
    /\ \E v \in RemoteBalances :
          /\ db' = RecordBalanceHistory(db, today, BalanceOf(v))
          /\ hist' = Called("record_balance_history", db, BalanceOf(v),
                            BalanceOf(v), [out |-> "ok"])
    /\ UNCHANGED <<today, ops, scn, procs>>
    /\ UNCHANGED retryVars

UpdateBalanceCall ==
    /\ scn = "history"
    /\ db.account # {}
    /\ \E v \in RemoteBalances, record_history \in BOOLEAN :
       \E r \in {UpdateBalance(db, today, BalanceOf(v), record_history)} :
          /\ db' = r.db
          /\ hist' = Called(IF record_history THEN "update_balance"
                            ELSE "update_balance_only",
                            db, BalanceOf(v), The(db.account).balance, r)
    /\ UNCHANGED <<today, ops, scn, procs>>
    /\ UNCHANGED retryVars

NextDay ==
    /\ scn = "history"
    /\ today < LastDay
    /\ today' = today + 1
    /\ hist' = <<>>
    /\ UNCHANGED <<db, ops, scn, procs>>
    /\ UNCHANGED retryVars

InitHistory ==
    /\ RetryIdle /\ ProcsIdle
    /\ \E a \in {{}, {[balance |-> InitialBalance]}} :
          db = [account |-> a, history |-> {}]
    /\ today = Today0
    /\ ops = 0
    /\ hist = <<>>
    /\ scn = "history"

NextHistory ==
    ProcessAccountCall \/ RecordHistoryCall \/ UpdateBalanceCall \/ NextDay

SpecHistory == InitHistory /\ [][NextHistory]_vars

LastCall == hist[1]

\* C36: an account sync that updates an existing account whose remote
\* balance differs from the stored one records a snapshot of the new balance
\* for the current day; with an unchanged balance it writes no snapshot.
C36_SnapshotOnBalanceChange ==
    (scn = "history" /\ hist # <<>> /\ LastCall.op = "process_account"
        /\ LastCall.out = "updated")
    => IF The(LastCall.before.account).balance # LastCall.balance
       THEN [date |-> today, balance |-> LastCall.balance] \in db.history
       ELSE db.history = LastCall.before.history

\* The half of C36 the code keeps: an update with an unchanged balance
\* writes no snapshot (and neither does any other update).
C36_UnchangedWritesNothing ==
    (scn = "history" /\ hist # <<>> /\ LastCall.op = "process_account"
        /\ LastCall.out = "updated")
    => db.history = LastCall.before.history

\* C37: a balance-history write on a day that already has a snapshot of the
\* account, through record_balance_history or Account.update_balance,
\* succeeds and leaves exactly one snapshot for the day, holding what the
\* second write wrote.
C37_SecondWriteOverwrites ==
    (scn = "history" /\ hist # <<>>
        /\ LastCall.op \in {"record_balance_history", "update_balance"}
        /\ SnapshotsOf(LastCall.before, today) # {})
    => /\ LastCall.out = "ok"
       /\ SnapshotsOf(db, today) = {[date |-> today, balance |-> LastCall.written]}

\* What holds of every history write: the day never has two snapshots, and
\* record_balance_history overwrites.
C37_OneSnapshotPerDay ==
    scn = "history" =>
        /\ \A day \in Today0..LastDay : Cardinality(SnapshotsOf(db, day)) <= 1
        /\ (hist # <<>> /\ LastCall.op = "record_balance_history")
           => SnapshotsOf(db, today) = {[date |-> today, balance |-> LastCall.written]}


----------------------------------------------------------------------------
(* The delays of the retry wrapper.                                         *)

RECURSIVE Power(_, _)
Power(b, n) == IF n = 0 THEN 1 ELSE b * Power(b, n - 1)

\* base_delay * multiplier^(k-1), the un-jittered delay before the k-th retry.
Unjittered(k) == rcfg.delay * Power(rcfg.backoff, k - 1)

\* C38: the sleep before the k-th retry is base_delay * multiplier^(k-1) *
\* (1 + j) with j in [-jitter, +jitter]: every sleep lies between the
\* un-jittered delay times (1 - jitter) and times (1 + jitter), and the
\* un-jittered delay is multiplied by the backoff after every failed attempt.
C38_SleepsFollowBackoff ==
    (rcfg # <<>> /\ rcfg.func = "scripted") =>
        /\ Len(sleeps) <= rcfg.tries - 1
        /\ mdelay = Unjittered(Len(sleeps) + 1)
        /\ \A k \in 1..Len(sleeps) :
              /\ sleeps[k] * 1000 >= Unjittered(k) * (1000 - rcfg.jitter)
              /\ sleeps[k] * 1000 <= Unjittered(k) * (1000 + rcfg.jitter)
              /\ \E j \in (0 - rcfg.jitter)..rcfg.jitter :
                    sleeps[k] = EffectiveDelay(Unjittered(k), j)

\* A run that slept before every retry it had, the first sleep at the low
\* end of its range and the last at the high end.
C38_Witness ==
    /\ rcfg # <<>> /\ rcfg.func = "scripted"
    /\ rcfg.tries >= 3
    /\ Len(sleeps) = rcfg.tries - 1
    /\ sleeps[1] * 1000 = Unjittered(1) * (1000 - rcfg.jitter)
    /\ sleeps[Len(sleeps)] * 1000 = Unjittered(Len(sleeps)) * (1000 + rcfg.jitter)
    /\ sleeps[Len(sleeps)] > Backoff * sleeps[1]


\* The categorized transactions whose description contains the new
\* description or is contained by it, case ignored.
SimilarEitherWay(d, desc) ==
    {t \in d.txs :
        /\ t.category_id # NoId
        /\ \/ Occurs(desc, Lower(t.description))
           \/ Occurs(Lower(t.description), desc)}

\* C39: a new transaction takes the category of the most recently created
\* categorized transaction whose description contains, or is contained by,
\* its own; only without one is the keyword table consulted, the first
\* matching category winning; when nothing matches it stays uncategorized.
C39_SimilarEitherDirection ==
    scn = "categories" =>
        \A r \in DOMAIN procs :
            procs[r].pc = "done" =>
                \E desc \in {Lower(procs[r].description)} :
                \E similar \in {SimilarEitherWay(db, desc)},
                   name \in {FirstPatternMatch(CategoryPatterns, desc)} :
                    IF similar # {}
                    THEN procs[r].category_id = MostRecent(similar).category_id
                    ELSE IF name = "" THEN procs[r].category_id = NoId
                    ELSE \E c \in db.categories :
                            c.name = name /\ c.id = procs[r].category_id

\* What the code does: the same with `similar` the transactions whose
\* description contains the new one.
C39_SimilarContaining ==
    scn = "categories" =>
        \A r \in DOMAIN procs :
            procs[r].pc = "done" =>
                \E desc \in {Lower(procs[r].description)} :
                \E similar \in {SimilarRows(db, desc)},
                   name \in {FirstPatternMatch(CategoryPatterns, desc)} :
                    IF similar # {}
                    THEN procs[r].category_id = MostRecent(similar).category_id
                    ELSE IF name = "" THEN procs[r].category_id = NoId
                    ELSE \E c \in db.categories :
                            c.name = name /\ c.id = procs[r].category_id

====
